---- MODULE Spec2Model ----
(***************************************************************************)
(* The ICS import pipeline of the touch calendar (calendar_app.py):        *)
(* parse_ics_file, parse_ics_datetime, import_ics_events,                  *)
(* extract_class_templates_from_events, parse_class_name, and the event    *)
(* store operations add_event / remove_event / update_event.               *)
(*                                                                         *)
(* A Python str is a sequence of one-character strings, so that strip,     *)
(* split, replace, "in" and the regular expressions are computed as the    *)
(* code computes them.  A dict is a function whose DOMAIN is its key set.  *)
(***************************************************************************)
EXTENDS Integers, Sequences, FiniteSets, TLC

\* ------------------------------------------------------------------ str

WS == {" ", "\t", "\n", "\r"}
Upper == {"A","B","C","D","E","F","G","H","I","J","K","L","M",
          "N","O","P","Q","R","S","T","U","V","W","X","Y","Z"}
DigitChars == <<"0","1","2","3","4","5","6","7","8","9">>
Digit == {DigitChars[n] : n \in 1..10}

Min(S) == CHOOSE x \in S : \A y \in S : x <= y
Max(S) == CHOOSE x \in S : \A y \in S : x >= y

DigitVal(c) == (CHOOSE n \in 1..10 : DigitChars[n] = c) - 1

\* int() of a string of decimal digits
RECURSIVE Num(_)
Num(s) ==
    IF s = <<>> THEN 0
    ELSE Num(SubSeq(s, 1, Len(s) - 1)) * 10 + DigitVal(s[Len(s)])

AllIn(s, C) == \A k \in 1..Len(s) : s[k] \in C

\* s[i:].startswith(p)
StartsWithAt(s, p, i) ==
    /\ i >= 1
    /\ i + Len(p) - 1 <= Len(s)
    /\ SubSeq(s, i, i + Len(p) - 1) = p

\* p in s
Contains(s, p) == \E i \in 1..(Len(s) - Len(p) + 1) : StartsWithAt(s, p, i)

\* s.find(p) + 1 (0 when p does not occur)
Find(s, p) ==
    LET I == {i \in 1..(Len(s) - Len(p) + 1) : StartsWithAt(s, p, i)}
    IN  IF I = {} THEN 0 ELSE Min(I)

\* the first index from k on that holds no whitespace (past the end if none)
RECURSIVE lstrip_at(_, _)
lstrip_at(s, k) == IF k > Len(s) \/ s[k] \notin WS THEN k ELSE lstrip_at(s, k + 1)

\* the last index up to n that holds no whitespace (0 if none)
RECURSIVE rstrip_at(_, _)
rstrip_at(s, n) == IF n = 0 \/ s[n] \notin WS THEN n ELSE rstrip_at(s, n - 1)

\* s.strip()
strip(s) == SubSeq(s, lstrip_at(s, 1), rstrip_at(s, Len(s)))

\* s.split(sep): the pieces between the occurrences of the character sep
RECURSIVE split(_, _)
split(s, sep) ==
    LET I == {k \in 1..Len(s) : s[k] = sep}
    IN  IF I = {} THEN <<s>>
        ELSE <<SubSeq(s, 1, Min(I) - 1)>> \o split(SubSeq(s, Min(I) + 1, Len(s)), sep)

\* s.split(sep, 1) for an s that holds the character sep
split1(s, sep) ==
    LET i == Min({k \in 1..Len(s) : s[k] = sep})
    IN  <<SubSeq(s, 1, i - 1), SubSeq(s, i + 1, Len(s))>>

\* s.replace(old, new): every non-overlapping occurrence, left to right
RECURSIVE replace(_, _, _)
replace(s, old, new) ==
    IF Len(s) < Len(old) THEN s
    ELSE IF StartsWithAt(s, old, 1)
         THEN new \o replace(SubSeq(s, Len(old) + 1, Len(s)), old, new)
         ELSE <<s[1]>> \o replace(Tail(s), old, new)

\* dict: d[key] = value
DictSet(d, key, value) ==
    [k \in (DOMAIN d) \cup {key} |-> IF k = key THEN value ELSE d[k]]

\* dict.get(key, default)
DictGet(d, key, default) == IF key \in DOMAIN d THEN d[key] ELSE default

EmptyDict == [k \in {} |-> <<>>]

\* None, a raised exception, a value
NoneValue == [kind |-> "None"]
Raised == [kind |-> "raise"]
Some(v) == [kind |-> "value", val |-> v]

\* ------------------------------------------------------- parse_ics_file

\* One pass of the "for line in content.split('\n')" loop, from line k on.
RECURSIVE parse_lines(_, _, _, _, _)
parse_lines(lines, k, events, current_event, in_vevent) ==
    IF k > Len(lines) THEN events
    ELSE
      LET line == strip(lines[k]) IN
      IF line = <<"B","E","G","I","N",":","V","E","V","E","N","T">>
      THEN parse_lines(lines, k + 1, events, EmptyDict, TRUE)
      ELSE IF line = <<"E","N","D",":","V","E","V","E","N","T">>
      THEN parse_lines(lines, k + 1,
                       IF in_vevent /\ DOMAIN current_event # {}
                       THEN Append(events, current_event) ELSE events,
                       EmptyDict, FALSE)
      ELSE IF in_vevent /\ Contains(line, <<":">>)
      THEN IF StartsWithAt(line, <<" ">>, 1) \/ StartsWithAt(line, <<"\t">>, 1)
           THEN parse_lines(lines, k + 1, events, current_event, in_vevent)
           ELSE LET kv    == split1(line, ":")
                    key   == IF Contains(kv[1], <<";">>)
                             THEN split(kv[1], ";")[1] ELSE kv[1]
                    value == kv[2]
                IN  parse_lines(lines, k + 1, events,
                                DictSet(current_event, key, value), in_vevent)
      ELSE parse_lines(lines, k + 1, events, current_event, in_vevent)

\* A file is [readable, content]; open() or read() of an unreadable or
\* undecodable file raises, and the except clause returns [].
\* parse_ics_file without its try/except: the open() error leaves the method
parse_ics_file_unguarded(f) ==
    IF ~f.readable THEN Raised
    ELSE Some(parse_lines(split(f.content, "\n"), 1, <<>>, EmptyDict, FALSE))

parse_ics_file(f) ==
    IF ~f.readable THEN Some(<<>>)
    ELSE Some(parse_lines(split(f.content, "\n"), 1, <<>>, EmptyDict, FALSE))

\* ------------------------------------------------------ datetime module

IsLeap(y) == (y % 4 = 0) /\ ((y % 100 # 0) \/ (y % 400 = 0))

DaysInMonth(y, m) ==
    IF m = 2 THEN (IF IsLeap(y) THEN 29 ELSE 28)
    ELSE IF m \in {4, 6, 9, 11} THEN 30 ELSE 31

\* datetime.date(y, m, d) does not raise ValueError
ValidDate(y, m, d) ==
    /\ y \in 1..9999
    /\ m \in 1..12
    /\ d \in 1..DaysInMonth(y, m)

DaysBeforeYear(y) ==
    (y - 1) * 365 + ((y - 1) \div 4) - ((y - 1) \div 100) + ((y - 1) \div 400)

RECURSIVE DaysBeforeMonth(_, _)
DaysBeforeMonth(y, m) ==
    IF m = 1 THEN 0 ELSE DaysBeforeMonth(y, m - 1) + DaysInMonth(y, m - 1)

\* date.toordinal(): 0001-01-01 is day 1, a Monday
toordinal(d) == DaysBeforeYear(d[1]) + DaysBeforeMonth(d[1], d[2]) + d[3]

\* date.weekday(): Monday is 0
weekday(d) == (toordinal(d) + 6) % 7

\* the date left where it is
SameDay(d) == d

\* date + timedelta(days=1)
NextDay(d) ==
    IF d[3] < DaysInMonth(d[1], d[2]) THEN <<d[1], d[2], d[3] + 1>>
    ELSE IF d[2] < 12 THEN <<d[1], d[2] + 1, 1>>
    ELSE <<d[1] + 1, 1, 1>>

\* date <= date
DateLE(a, b) ==
    \/ a[1] < b[1]
    \/ a[1] = b[1] /\ a[2] < b[2]
    \/ a[1] = b[1] /\ a[2] = b[2] /\ a[3] <= b[3]

\* A two-character field of strptime that converts to a number in lo..hi.
Field2(s, i, lo, hi) ==
    /\ s[i] \in Digit /\ s[i + 1] \in Digit
    /\ Num(SubSeq(s, i, i + 1)) \in lo..hi

\* %d also accepts a space and one digit 1-9.
DayField(s, i) ==
    \/ Field2(s, i, 1, 31)
    \/ s[i] = " " /\ s[i + 1] \in Digit /\ s[i + 1] # "0"

DayVal(s, i) == IF s[i] = " " THEN DigitVal(s[i + 1]) ELSE Num(SubSeq(s, i, i + 1))

\* datetime.strptime(s, '%Y%m%d') for a string s of 8 characters: the
\* directives consume all of s only when each field takes its full width.
strptime_date(s) ==
    IF /\ AllIn(SubSeq(s, 1, 4), Digit)
       /\ Field2(s, 5, 1, 12)
       /\ DayField(s, 7)
       /\ ValidDate(Num(SubSeq(s, 1, 4)), Num(SubSeq(s, 5, 6)), DayVal(s, 7))
    THEN Some([date |-> <<Num(SubSeq(s, 1, 4)), Num(SubSeq(s, 5, 6)), DayVal(s, 7)>>,
               hour |-> 0, minute |-> 0, second |-> 0])
    ELSE Raised

\* datetime.strptime(s, '%Y%m%dT%H%M%S') for a string s of 15 characters
\* (the format's literal T is matched ignoring case).
strptime_datetime(s) ==
    IF /\ strptime_date(SubSeq(s, 1, 8)).kind = "value"
       /\ s[9] \in {"T", "t"}
       /\ Field2(s, 10, 0, 23)
       /\ Field2(s, 12, 0, 59)
       /\ Field2(s, 14, 0, 59)
    THEN Some([date   |-> strptime_date(SubSeq(s, 1, 8)).val.date,
               hour   |-> Num(SubSeq(s, 10, 11)),
               minute |-> Num(SubSeq(s, 12, 13)),
               second |-> Num(SubSeq(s, 14, 15))])
    ELSE Raised

\* '%02d' % n
Fmt2(n) == <<DigitChars[(n \div 10) + 1], DigitChars[(n % 10) + 1]>>

\* datetime.strftime('%H:%M')
strftime_HM(dt) == Fmt2(dt.hour) \o <<":">> \o Fmt2(dt.minute)

\* --------------------------------------------------- parse_ics_datetime

\* The body of the try block: a datetime, None (no return statement is
\* reached) or an exception.
parse_ics_datetime_try(dt_string) ==
    LET tz == Contains(dt_string, <<"T","Z","I","D","=">>) IN
    IF tz /\ ~Contains(dt_string, <<":">>) THEN Raised
    ELSE
      LET s == IF tz THEN split1(dt_string, ":")[2] ELSE dt_string IN
      IF Contains(s, <<"T">>)
      THEN IF Len(s) >= 15 THEN strptime_datetime(SubSeq(s, 1, 15)) ELSE NoneValue
      ELSE IF Len(s) >= 8 THEN strptime_date(SubSeq(s, 1, 8)) ELSE NoneValue

\* default_date is NoneValue or Some(datetime); now is datetime.now()
parse_ics_datetime(dt_string, default_date, now) ==
    LET r == parse_ics_datetime_try(dt_string) IN
    IF r.kind = "raise"
    THEN (IF default_date.kind = "value" THEN default_date ELSE Some(now))
    ELSE r

\* ----------------------------------------------------- parse_class_name

\* The last index of the longest run of characters of class C that starts
\* at index i (i - 1 when s[i] is not in C or i is past the end).
RECURSIVE RunEnd(_, _, _)
RunEnd(s, i, C) ==
    IF i > Len(s) \/ s[i] \notin C THEN i - 1 ELSE RunEnd(s, i + 1, C)

\* "." matches every character but a newline
NoNewline(s) == \A k \in 1..Len(s) : s[k] # "\n"

\* \s+[A-Z]{1,3}\d*$ matched from index p of s
SectionTail(s, p) ==
    LET a == RunEnd(s, p, WS)
        f == RunEnd(s, a + 1, Upper)
        g == RunEnd(s, f + 1, Digit)
    IN  a >= p /\ (f - a) \in 1..3 /\ g = Len(s)

\* re.sub(r'\s+[A-Z]{1,3}\d*$', '', s)
StripSection(s) ==
    LET P == {p \in 1..Len(s) : SectionTail(s, p)}
    IN  IF P = {} THEN s ELSE SubSeq(s, 1, Min(P) - 1)

\* \s+([A-Z]{2,4}\s+\d{3})\s+[A-Z]{1,3}\d*$ matched from index p of t
Tail1(t, p) ==
    LET a == RunEnd(t, p, WS)
        b == RunEnd(t, a + 1, Upper)
        c == RunEnd(t, b + 1, WS)
        d == c + 3
    IN  /\ a >= p
        /\ (b - a) \in 2..4
        /\ c > b
        /\ d <= Len(t)
        /\ AllIn(SubSeq(t, c + 1, d), Digit)
        /\ SectionTail(t, d + 1)

\* group 2 of that match
Tail1Code(t, p) ==
    LET a == RunEnd(t, p, WS)
        c == RunEnd(t, RunEnd(t, a + 1, Upper) + 1, WS)
    IN  SubSeq(t, a + 1, c + 3)

\* pattern1 with the two groups put into the result the other way round
pattern1_swapped(title) ==
    LET I == {i \in 1..Len(title) :
                NoNewline(SubSeq(title, 1, i)) /\ Tail1(title, i + 1)}
    IN  IF I = {} THEN NoneValue
        ELSE Some(strip(SubSeq(title, 1, Min(I))) \o <<" ","-"," ">>
                  \o strip(Tail1Code(title, Min(I) + 1)))

\* pattern1 = r'^(.+?)\s+([A-Z]{2,4}\s+\d{3})\s+[A-Z]{1,3}\d*$': the lazy
\* group 1 ends at the least index from which the rest matches.
pattern1(title) ==
    LET I == {i \in 1..Len(title) :
                NoNewline(SubSeq(title, 1, i)) /\ Tail1(title, i + 1)}
    IN  IF I = {} THEN NoneValue
        ELSE Some(strip(Tail1Code(title, Min(I) + 1)) \o <<" ","-"," ">>
                  \o strip(SubSeq(title, 1, Min(I))))

SectionWords ==
    {<<"A","L">>, <<"A","D">>, <<"L","a","b">>, <<"D","i","s","c","u","s","s","i","o","n">>, <<"L","e","c","t","u","r","e">>, <<"B","Y","A">>, <<"B","L">>, <<"A","B">>}

\* re.sub(r'\s+(AL\d*|AD\d*|Lab|Discussion|Lecture|BYA|BL\d*|AB\d*).*$', '', s)
StripSectionWords(s) ==
    LET P == {p \in 1..Len(s) :
                LET a == RunEnd(s, p, WS) IN
                /\ a >= p
                /\ \E w \in SectionWords :
                     /\ StartsWithAt(s, w, a + 1)
                     /\ NoNewline(SubSeq(s, a + 1 + Len(w), Len(s)))}
    IN  IF P = {} THEN s ELSE SubSeq(s, 1, Min(P) - 1)

\* pattern2 = r'^([A-Z]{2,4}\s*\d{3})\s+(.+?)(\s+[A-Z]{1,3}\d*)?$'
pattern2(title) ==
    LET b == RunEnd(title, 1, Upper)
        c == RunEnd(title, b + 1, WS)
        d == c + 3
        e == RunEnd(title, d + 1, WS)
        \* the ends j of group 2 when the greedy \s+ stops at w
        J(w) == {j \in (w + 1)..Len(title) :
                   /\ NoNewline(SubSeq(title, w + 1, j))
                   /\ (SectionTail(title, j + 1) \/ j = Len(title))}
        W == {w \in (d + 1)..e : J(w) # {}}
    IN  IF /\ b \in 2..4
           /\ d <= Len(title)
           /\ AllIn(SubSeq(title, c + 1, d), Digit)
           /\ W # {}
        THEN Some(strip(SubSeq(title, 1, d)) \o <<" ","-"," ">>
                  \o StripSectionWords(
                       strip(SubSeq(title, Max(W) + 1, Min(J(Max(W)))))))
        ELSE NoneValue

\* [A-Z]{2,4}\s+\d{n} matched at index i of t: [ok, last]
CodeAt(t, i, n) ==
    LET r == RunEnd(t, i, Upper)
        c == RunEnd(t, r + 1, WS)
    IN  [ok   |-> /\ (r - i + 1) \in 2..4
                  /\ c > r
                  /\ c + n <= Len(t)
                  /\ AllIn(SubSeq(t, c + 1, c + n), Digit),
         last |-> c + n]

\* pattern3 = r'([A-Z]{2,4}\s+\d{3})', re.search: the leftmost match
pattern3(title) ==
    LET I == {i \in 1..Len(title) : CodeAt(title, i, 3).ok}
    IN  IF I = {} THEN NoneValue
        ELSE
          LET course_code == SubSeq(title, Min(I), CodeAt(title, Min(I), 3).last)
              remaining   == StripSection(strip(replace(title, course_code, <<>>)))
          IN  IF Len(remaining) > 2
              THEN Some(course_code \o <<" ","-"," ">> \o remaining)
              ELSE Some(course_code)

\* re.search(r'[A-Z]{2,4}\s+\d{2,3}', title), then the cleaned title
pattern4(title) ==
    IF \E i \in 1..Len(title) : CodeAt(title, i, 2).ok
    THEN Some(strip(StripSection(title)))
    ELSE NoneValue

\* the cascade with pattern 2 tried before pattern 1
parse_class_name_pattern2_first(event_title) ==
    IF event_title = <<>> THEN NoneValue
    ELSE
      LET title == replace(strip(event_title), <<"&","a","m","p",";">>, <<"&">>) IN
      IF pattern2(title).kind = "value" THEN pattern2(title)
      ELSE IF pattern1(title).kind = "value" THEN pattern1(title)
      ELSE IF pattern3(title).kind = "value" THEN pattern3(title)
      ELSE pattern4(title)

\* The cascade: the first pattern that matches decides.
parse_class_name(event_title) ==
    IF event_title = <<>> THEN NoneValue
    ELSE
      LET title == replace(strip(event_title), <<"&","a","m","p",";">>, <<"&">>) IN
      IF pattern1(title).kind = "value" THEN pattern1(title)
      ELSE IF pattern2(title).kind = "value" THEN pattern2(title)
      ELSE IF pattern3(title).kind = "value" THEN pattern3(title)
      ELSE pattern4(title)

\* ---------------------------------------------------- import_ics_events

\* '%04d' % n
Fmt4(n) == <<DigitChars[(n \div 1000) + 1], DigitChars[((n \div 100) % 10) + 1],
             DigitChars[((n \div 10) % 10) + 1], DigitChars[(n % 10) + 1]>>

\* date.isoformat()
isoformat(d) == Fmt4(d[1]) \o <<"-">> \o Fmt2(d[2]) \o <<"-">> \o Fmt2(d[3])

\* The record's fields as the loop body reads them (the try block up to the
\* event dict): "skip" is the continue on a missing start, "raise" an
\* exception (end_dt is None and has no strftime), "event" the seed event.
Interpret(ics_event, now) ==
    LET summary     == DictGet(ics_event, <<"S","U","M","M","A","R","Y">>, <<"U","n","t","i","t","l","e","d"," ","E","v","e","n","t">>)
        description == replace(DictGet(ics_event, <<"D","E","S","C","R","I","P","T","I","O","N">>, <<>>),
                               <<"\\", "n">>, <<"\n">>)
        location    == DictGet(ics_event, <<"L","O","C","A","T","I","O","N">>, <<>>)
        start_dt    == parse_ics_datetime(DictGet(ics_event, <<"D","T","S","T","A","R","T">>, <<>>),
                                          NoneValue, now)
        end_dt      == parse_ics_datetime(DictGet(ics_event, <<"D","T","E","N","D">>, <<>>),
                                          start_dt, now)
    IN  IF start_dt.kind = "None" THEN [kind |-> "skip"]
        ELSE IF end_dt.kind = "None" THEN Raised
        ELSE [kind     |-> "event",
              start_dt |-> start_dt.val,
              event    |-> [title         |-> summary,
                            description   |-> description,
                            location      |-> location,
                            start_time    |-> strftime_HM(start_dt.val),
                            end_time      |-> strftime_HM(end_dt.val),
                            all_day       |-> FALSE,
                            category      |-> "imported",
                            imported_from |-> "ics"]]

\* any rule at all taken for a weekly one
IsRecurring(rrule) == rrule # <<>>

\* rrule and 'FREQ=WEEKLY' in rrule
IsWeekly(rrule) == rrule # <<>> /\ Contains(rrule, <<"F","R","E","Q","=","W","E","E","K","L","Y">>)

\* re.search(r'UNTIL=(\d{8})', rrule): group 1 of the leftmost match
until_match(rrule) ==
    LET I == {k \in 1..Len(rrule) :
                /\ StartsWithAt(rrule, <<"U","N","T","I","L","=">>, k)
                /\ k + 13 <= Len(rrule)
                /\ AllIn(SubSeq(rrule, k + 6, k + 13), Digit)}
    IN  IF I = {} THEN NoneValue ELSE Some(SubSeq(rrule, Min(I) + 6, Min(I) + 13))

\* a rule without BYDAY taken to name every weekday
byday_every_day(rrule) == Some(<<"M","O",",","T","U",",","W","E",",","T","H",",","F","R",",","S","A",",","S","U">>)

\* re.search(r'BYDAY=([^;]+)', rrule): group 1 of the leftmost match
byday_match(rrule) ==
    LET I == {k \in 1..Len(rrule) :
                /\ StartsWithAt(rrule, <<"B","Y","D","A","Y","=">>, k)
                /\ k + 6 <= Len(rrule)
                /\ rrule[k + 6] # ";"}
        J == {j \in (Min(I) + 6)..Len(rrule) : rrule[j] = ";"}
    IN  IF I = {} THEN NoneValue
        ELSE Some(SubSeq(rrule, Min(I) + 6, IF J = {} THEN Len(rrule) ELSE Min(J) - 1))

\* day_map.get(day): -1 stands for None
day_map(day) ==
    CASE day = <<"M","O">> -> 0 [] day = <<"T","U">> -> 1 [] day = <<"W","E">> -> 2
      [] day = <<"T","H">> -> 3 [] day = <<"F","R">> -> 4 [] day = <<"S","A">> -> 5
      [] day = <<"S","U">> -> 6 [] OTHER -> -1

\* the test with the first day of BYDAY only
DayMatchesFirst(days, d) == Len(days) > 0 /\ day_map(days[1]) = weekday(d)

\* any(day_map.get(day) == weekday for day in days)
DayMatches(days, d) == \E k \in 1..Len(days) : day_map(days[k]) = weekday(d)

DefaultUntil == <<2025, 12, 31>>

\* until_date: the default, or strptime(until_str, '%Y%m%d').date()
until_of(rrule) ==
    IF until_match(rrule).kind = "None" THEN Some(DefaultUntil)
    ELSE IF strptime_date(until_match(rrule).val).kind = "raise" THEN Raised
    ELSE Some(strptime_date(until_match(rrule).val).val.date)

\* any(e['title'] == event['title'] and e['start_time'] == event['start_time']
\*     for e in lst): a missing key raises KeyError unless an earlier entry
\* already made any() true.
exists(lst, ev) ==
    LET Hits == {k \in 1..Len(lst) :
                   /\ "title" \in DOMAIN lst[k]
                   /\ lst[k].title = ev.title
                   /\ "start_time" \in DOMAIN lst[k]
                   /\ lst[k].start_time = ev.start_time}
        Errs == {k \in 1..Len(lst) :
                   \/ "title" \notin DOMAIN lst[k]
                   \/ lst[k].title = ev.title /\ "start_time" \notin DOMAIN lst[k]}
    IN  IF Errs # {} /\ (Hits = {} \/ Min(Errs) < Min(Hits)) THEN Raised
        ELSE Some(Hits # {})

\* calendar_event = event.copy(); calendar_event['category'] = 'class'
calendar_event(ev) == [ev EXCEPT !.category = "class"]

\* the insertion block putting the new event first on its date
TryInsertFirst(store, date_str, ev) ==
    LET lst == IF date_str \in DOMAIN store THEN store[date_str] ELSE <<>>
        ex  == exists(lst, ev)
    IN  IF ex.kind = "raise" THEN Raised
        ELSE IF ex.val
             THEN [kind |-> "value", store |-> store, inserted |-> FALSE]
             ELSE [kind     |-> "value",
                   store    |-> DictSet(store, date_str, <<calendar_event(ev)>> \o lst),
                   inserted |-> TRUE]

\* The insertion block of both branches: create the date entry, test for a
\* duplicate, append.  [kind, store, inserted], or an exception.
TryInsert(store, date_str, ev) ==
    LET lst == IF date_str \in DOMAIN store THEN store[date_str] ELSE <<>>
        ex  == exists(lst, ev)
    IN  IF ex.kind = "raise" THEN Raised
        ELSE IF ex.val
             THEN [kind |-> "value", store |-> store, inserted |-> FALSE]
             ELSE [kind     |-> "value",
                   store    |-> DictSet(store, date_str, Append(lst, calendar_event(ev))),
                   inserted |-> TRUE]

\* --------------------------------- extract_class_templates_from_events

BasicTemplates(class_name) ==
    << [title       |-> <<"R","e","v","i","e","w"," ","t","o","d","a","y","'","s"," ","m","a","t","e","r","i","a","l">>,
        description |-> <<"R","e","v","i","e","w"," ","n","o","t","e","s"," ","a","n","d"," ","m","a","t","e","r","i","a","l","s"," ","f","r","o","m"," ">> \o class_name,
        priority    |-> <<"m","e","d","i","u","m">>],
       [title       |-> <<"C","o","m","p","l","e","t","e"," ","h","o","m","e","w","o","r","k","/","a","s","s","i","g","n","m","e","n","t","s">>,
        description |-> <<"W","o","r","k"," ","o","n"," ","a","n","y"," ","a","s","s","i","g","n","m","e","n","t","s"," ","f","o","r"," ">> \o class_name,
        priority    |-> <<"h","i","g","h">>],
       [title       |-> <<"P","r","e","p","a","r","e"," ","f","o","r"," ","n","e","x","t"," ","c","l","a","s","s">>,
        description |-> <<"R","e","a","d"," ","a","h","e","a","d"," ","a","n","d"," ","p","r","e","p","a","r","e"," ","f","o","r"," ","n","e","x","t"," ">> \o class_name \o <<" ","s","e","s","s","i","o","n">>,
        priority    |-> <<"m","e","d","i","u","m">>],
       [title       |-> <<"S","t","u","d","y","/","p","r","a","c","t","i","c","e"," ","p","r","o","b","l","e","m","s">>,
        description |-> <<"P","r","a","c","t","i","c","e"," ","p","r","o","b","l","e","m","s"," ","o","r"," ","s","t","u","d","y"," ","c","o","n","c","e","p","t","s"," ","f","r","o","m"," ">> \o class_name,
        priority    |-> <<"m","e","d","i","u","m">>] >>

\* the class names of the store's events that carry imported_from == 'ics'
ExtractedNames(store) ==
    {r.val : r \in {c \in {parse_class_name(DictGet(e, "title", <<>>)) :
                              e \in {x \in UNION {{store[d][k] : k \in 1..Len(store[d])} :
                                                    d \in DOMAIN store} :
                                       /\ "imported_from" \in DOMAIN x
                                       /\ x.imported_from = "ics"}} :
                       c.kind = "value"}}

extracted_classes(store) == [c \in ExtractedNames(store) |-> BasicTemplates(c)]

\* dict.setdefault for every key of u: the entries already there win
DictSetDefault(d, u) ==
    [k \in (DOMAIN d) \cup (DOMAIN u) |-> IF k \in DOMAIN d THEN d[k] ELSE u[k]]

\* dict.update
DictUpdate(d, u) ==
    [k \in (DOMAIN d) \cup (DOMAIN u) |-> IF k \in DOMAIN u THEN u[k] ELSE d[k]]

\* the templates replaced by the extracted ones instead of merged
extract_replacing(templates, store) ==
    IF DOMAIN extracted_classes(store) # {}
    THEN extracted_classes(store)
    ELSE templates

\* self.class_templates after extract_class_templates_from_events
extract_class_templates_from_events(templates, store) ==
    LET extracted == extracted_classes(store) IN
    IF DOMAIN extracted # {} THEN DictUpdate(templates, extracted) ELSE templates

\* ------------------------------- load_class_templates and the class files

\* s.rstrip()
rstrip(s) == SubSeq(s, 1, rstrip_at(s, Len(s)))

\* the task dict of an indented line of a classes file
task_dict(task_line) ==
    IF StartsWithAt(task_line, <<"[">>, 1) /\ Contains(task_line, <<"]">>)
    THEN LET priority_end == Find(task_line, <<"]">>)
             remaining == strip(SubSeq(task_line, priority_end + 1, Len(task_line)))
             at == Find(remaining, <<" ","-"," ">>)
         IN  [title       |-> IF at = 0 THEN remaining ELSE SubSeq(remaining, 1, at - 1),
              description |-> IF at = 0 THEN <<>>
                              ELSE SubSeq(remaining, at + 3, Len(remaining)),
              priority    |-> strip(SubSeq(task_line, 2, priority_end - 1))]
    ELSE [title |-> task_line, description |-> <<>>, priority |-> <<"m","e","d","i","u","m">>]

\* the loop over the lines of a classes file
RECURSIVE load_lines(_, _, _)
load_lines(templates, current_class, lines) ==
    IF lines = <<>> THEN templates
    ELSE LET line == rstrip(Head(lines)) IN
         IF line = <<>> \/ StartsWithAt(line, <<"#">>, 1)
         THEN load_lines(templates, current_class, Tail(lines))
         ELSE IF line[1] \notin {" ", "\t"}
         THEN load_lines(IF strip(line) \in DOMAIN templates THEN templates
                         ELSE DictSet(templates, strip(line), <<>>),
                         Some(strip(line)), Tail(lines))
         ELSE IF StartsWithAt(line, <<" "," ">>, 1) /\ current_class.kind = "value"
         THEN load_lines(DictSet(templates, current_class.val,
                                 Append(templates[current_class.val],
                                        task_dict(strip(line)))),
                         current_class, Tail(lines))
         ELSE load_lines(templates, current_class, Tail(lines))

\* self.class_templates after load_classes_from_file: f is None for a
\* file that does not exist, else the lines of the file
load_classes_from_file(templates, f) ==
    IF f.kind = "None" THEN templates ELSE load_lines(templates, NoneValue, f.val)

\* self.class_templates after load_class_templates: classes.txt, then
\* classes_from_ics.txt
load_class_templates(templates, manual, derived) ==
    load_classes_from_file(load_classes_from_file(templates, manual), derived)

\* the place of a class name's first imported event in the store, the
\* dates taken in calendar order
FirstAt(store, name) ==
    Min({Num(replace(d, <<"-">>, <<>>)) * 100 + k :
           <<d, k>> \in {dk \in UNION {{<<dd, kk>> : kk \in 1..Len(store[dd])} : dd \in DOMAIN store} :
                           LET e == store[dk[1]][dk[2]] IN
                           /\ "imported_from" \in DOMAIN e
                           /\ e.imported_from = "ics"
                           /\ parse_class_name(DictGet(e, "title", <<>>)) = Some(name)}})

\* extracted_classes.keys(), in the order of insertion
RECURSIVE ExtractedOrder(_, _)
ExtractedOrder(store, names) ==
    IF names = {} THEN <<>>
    ELSE LET n == CHOOSE n \in names :
                    \A o \in names \ {n} : FirstAt(store, n) <= FirstAt(store, o)
         IN  <<n>> \o ExtractedOrder(store, names \ {n})

\* the lines written for one class: its name, its tasks, an empty line
ClassBlock(class_name, tasks) ==
    <<class_name>>
    \o [k \in 1..Len(tasks) |->
          <<" "," ","[">> \o tasks[k].priority \o <<"]"," ">> \o tasks[k].title \o <<" ","-"," ">>
          \o tasks[k].description]
    \o << <<>> >>

RECURSIVE ClassBlocks(_, _)
ClassBlocks(extracted, order) ==
    IF order = <<>> THEN <<>>
    ELSE ClassBlock(Head(order), extracted[Head(order)])
         \o ClassBlocks(extracted, Tail(order))

\* the two comment lines and the empty line at the head of the file
ClassesHeader ==
    << <<"#"," ","C","l","a","s","s","e","s"," ","e","x","t","r","a","c","t","e","d"," ","f","r","o","m"," ","I","C","S"," ","c","a","l","e","n","d","a","r"," ","i","m","p","o","r","t">>,
       <<"#"," ","T","h","i","s"," ","f","i","l","e"," ","w","a","s"," ","a","u","t","o","-","g","e","n","e","r","a","t","e","d"," ","f","r","o","m"," ","y","o","u","r"," ","i","m","p","o","r","t","e","d"," ","c","a","l","e","n","d","a","r">>,
       <<>> >>

\* the file written whether or not a class was extracted
classes_from_ics_always(old, store) ==
    LET extracted == extracted_classes(store) IN
    Some(ClassesHeader
         \o ClassBlocks(extracted, ExtractedOrder(store, DOMAIN extracted)))

\* classes_from_ics.txt after extract_class_templates_from_events
classes_from_ics(old, store) ==
    LET extracted == extracted_classes(store) IN
    IF DOMAIN extracted # {}
    THEN Some(ClassesHeader
              \o ClassBlocks(extracted, ExtractedOrder(store, DOMAIN extracted)))
    ELSE old

\* ------------------------------------------------------------- inputs

\* text lines joined by newlines
RECURSIVE Join(_)
Join(lines) ==
    IF Len(lines) = 0 THEN <<>>
    ELSE IF Len(lines) = 1 THEN lines[1]
    ELSE lines[1] \o <<"\n">> \o Join(Tail(lines))

TextFile(lines) == [readable |-> TRUE, content |-> Join(lines)]
Unreadable == [readable |-> FALSE, content |-> <<>>]
NoFile == [readable |-> TRUE, content |-> <<>>]

VEVENT(lines) == <<<<"B","E","G","I","N",":","V","E","V","E","N","T">>>> \o lines \o <<<<"E","N","D",":","V","E","V","E","N","T">>>>

TitleA == <<"A","l","g","s"," ","E","C","E"," ","3","7","4"," ","B","Y","A">>
TitleM == <<"T","e","a","m"," ","M","e","e","t","i","n","g">>

EvA == VEVENT(<<<<"S","U","M","M","A","R","Y",":","A","l","g","s"," ","E","C","E"," ","3","7","4"," ","B","Y","A">>,
                <<"D","T","S","T","A","R","T",":","2","0","2","5","0","1","0","1","T","0","9","0","0","0","0">>, <<"D","T","E","N","D",":","2","0","2","5","0","1","0","1","T","1","0","0","0","0","0">>>>)
\* the title and start of EvA, everything else different
EvA2 == VEVENT(<<<<"S","U","M","M","A","R","Y",":","A","l","g","s"," ","E","C","E"," ","3","7","4"," ","B","Y","A">>, <<"D","E","S","C","R","I","P","T","I","O","N",":","m","o","v","e","d","\\","n","r","o","o","m">>,
                 <<"L","O","C","A","T","I","O","N",":","E","C","E","B">>,
                 <<"D","T","S","T","A","R","T",";","T","Z","I","D","=","A","m","e","r","i","c","a","/","C","h","i","c","a","g","o",":","2","0","2","5","0","1","0","1","T","0","9","0","0","0","0">>,
                 <<"D","T","E","N","D",";","T","Z","I","D","=","A","m","e","r","i","c","a","/","C","h","i","c","a","g","o",":","2","0","2","5","0","1","0","1","T","1","1","0","0","0","0">>>>)
\* the title and start time of EvA on another date
EvB == VEVENT(<<<<"S","U","M","M","A","R","Y",":","A","l","g","s"," ","E","C","E"," ","3","7","4"," ","B","Y","A">>,
                <<"D","T","S","T","A","R","T",":","2","0","2","5","0","1","0","6","T","0","9","0","0","0","0">>, <<"D","T","E","N","D",":","2","0","2","5","0","1","0","6","T","1","0","0","0","0","0">>>>)
EvWeekly == VEVENT(<<<<"S","U","M","M","A","R","Y",":","A","l","g","s"," ","E","C","E"," ","3","7","4"," ","B","Y","A">>,
                     <<"D","T","S","T","A","R","T",":","2","0","2","5","0","1","0","1","T","0","9","0","0","0","0">>, <<"D","T","E","N","D",":","2","0","2","5","0","1","0","1","T","1","0","0","0","0","0">>,
                     <<"R","R","U","L","E",":","F","R","E","Q","=","W","E","E","K","L","Y",";","B","Y","D","A","Y","=","M","O",",","W","E",";","U","N","T","I","L","=","2","0","2","5","0","1","1","5">>>>)
EvWeeklyDefault == VEVENT(<<<<"S","U","M","M","A","R","Y",":","T","e","a","m"," ","M","e","e","t","i","n","g">>,
                            <<"D","T","S","T","A","R","T",":","2","0","2","5","1","2","2","9","T","1","3","0","0","0","0">>, <<"D","T","E","N","D",":","2","0","2","5","1","2","2","9","T","1","4","0","0","0","0">>,
                            <<"R","R","U","L","E",":","F","R","E","Q","=","W","E","E","K","L","Y",";","B","Y","D","A","Y","=","T","U",",","W","E">>>>)
EvNoEnd == VEVENT(<<<<"S","U","M","M","A","R","Y",":","T","e","a","m"," ","M","e","e","t","i","n","g">>, <<"D","T","S","T","A","R","T",":","2","0","2","5","0","1","0","2","T","1","4","0","0","0","0">>>>)
EvNoStart == VEVENT(<<<<"S","U","M","M","A","R","Y",":","T","e","a","m"," ","M","e","e","t","i","n","g">>, <<"D","T","E","N","D",":","2","0","2","5","0","1","0","2","T","1","5","0","0","0","0">>>>)
EvBadStart == VEVENT(<<<<"S","U","M","M","A","R","Y",":","T","e","a","m"," ","M","e","e","t","i","n","g">>, <<"D","T","S","T","A","R","T",":","n","o","t","a","d","a","t","e","1">>,
                       <<"D","T","E","N","D",":","2","0","2","5","0","1","0","2","T","1","5","0","0","0","0">>>>)
EvBadEnd == VEVENT(<<<<"D","T","S","T","A","R","T",":","2","0","2","5","0","1","0","2","T","1","4","0","0","0","0">>, <<"D","T","E","N","D",":","t","o","m","o","r","r","o","w">>>>)
\* a DTEND that is no date and has fewer than eight characters
EvShortEnd == VEVENT(<<<<"S","U","M","M","A","R","Y",":","T","e","a","m"," ","M","e","e","t","i","n","g">>, <<"D","T","S","T","A","R","T",":","2","0","2","5","0","1","0","2","T","1","4","0","0","0","0">>,
                       <<"D","T","E","N","D",":","s","o","o","n">>>>)
\* a record of the day of EvBadEnd, earlier in the day
EvEarly == VEVENT(<<<<"S","U","M","M","A","R","Y",":","T","e","a","m"," ","M","e","e","t","i","n","g">>, <<"D","T","S","T","A","R","T",":","2","0","2","5","0","1","0","2","T","0","9","0","0","0","0">>,
                    <<"D","T","E","N","D",":","2","0","2","5","0","1","0","2","T","0","9","3","0","0","0">>>>)
EvDaily == VEVENT(<<<<"S","U","M","M","A","R","Y",":","T","e","a","m"," ","M","e","e","t","i","n","g">>,
                    <<"D","T","S","T","A","R","T",":","2","0","2","5","0","1","0","6","T","1","4","0","0","0","0">>, <<"D","T","E","N","D",":","2","0","2","5","0","1","0","6","T","1","5","0","0","0","0">>,
                    <<"R","R","U","L","E",":","F","R","E","Q","=","D","A","I","L","Y",";","U","N","T","I","L","=","2","0","2","5","0","1","1","0">>>>)
EvWeeklyNoByday == VEVENT(<<<<"S","U","M","M","A","R","Y",":","A","l","g","s"," ","E","C","E"," ","3","7","4"," ","B","Y","A">>,
                            <<"D","T","S","T","A","R","T",":","2","0","2","5","0","1","0","6","T","0","9","0","0","0","0">>, <<"D","T","E","N","D",":","2","0","2","5","0","1","0","6","T","1","0","0","0","0","0">>,
                            <<"R","R","U","L","E",":","F","R","E","Q","=","W","E","E","K","L","Y",";","U","N","T","I","L","=","2","0","2","5","0","1","1","5">>>>)

FileA == TextFile(EvA)
FileDup == TextFile(EvA \o EvA2 \o EvB)
FileWeekly == TextFile(EvWeekly)
FileGoodNoStart == TextFile(EvA \o EvNoStart)
FileNoEnd == TextFile(EvNoEnd)
FileBadStart == TextFile(EvBadStart)
FileBadEndDefault == TextFile(EvBadEnd \o EvWeeklyDefault)
FileRules == TextFile(EvDaily \o EvWeeklyNoByday)
FileBadEnds == TextFile(EvBadEnd \o EvShortEnd \o EvEarly)

Files == {FileDup, FileWeekly, FileGoodNoStart, FileNoEnd, FileBadStart,
          FileBadEndDefault, Unreadable}

\* what the event dialog saves: title, date, duration, description
ManualEvent(title, d) ==
    [title       |-> title,
     date        |-> isoformat(d) \o <<"T","0","9",":","0","0",":","0","0">>,
     duration    |-> 60,
     description |-> <<>>]

OpDates == {<<2025, 1, 1>>, <<2025, 1, 6>>}
AddDates == {<<2025, 1, 1>>}
ManualTitles == {TitleA, TitleM}

MaxImports == 2
MaxEdits == 1
MaxTicks == 1
MaxIndex == 1

\* -------------------------------------------------------------- state

VARIABLES
    events,           \* self.events: date string -> list of event dicts
    events_file,      \* calendar_events.json: None, or the store last written
    config,           \* self.config
    backup_file,      \* the newest calendar_events_backup_*.json, or None
    saves,            \* history: calls of save_events by the running import
    backups,          \* history: backup files written by the running import
    class_templates,  \* self.class_templates: class name -> list of task dicts
    classes_file,     \* classes.txt: None, or its lines
    ics_classes_file, \* classes_from_ics.txt: None, or its lines
    ticks,            \* minutes the clock has advanced
    pc,               \* where import_ics_events is: idle, loop, while, extract,
                      \* return, raised (an exception left import_ics_events)
    file,             \* the file at file_path
    ics_events,       \* import_ics_events' local events
    i,                \* index (from 1) of the record being processed
    imported_count,
    event,            \* the seed event of the record being expanded
    days,
    until_date,
    current_date,
    result,           \* the last value import_ics_events returned
    start_events,     \* history: self.events when this import started
    removals,         \* history: the file remembered at the last return, and the
                      \* events remove_event has removed since, with their dates
    last_file,        \* history: the file of the last import (kept by
                      \* ReturnRemember until the next store operation)
    repeat,           \* history: this import repeats the last one
    imports,          \* number of imports run
    edits,            \* number of add/remove/update calls
    event_title,      \* parse_class_name's argument
    class_name        \* and its result

vars == <<events, events_file, config, backup_file, saves, backups, class_templates,
          classes_file, ics_classes_file, ticks, pc, file, ics_events, i,
          imported_count, event, days, until_date, current_date, result,
          start_events, removals, last_file, repeat, imports, edits, event_title,
          class_name>>

\* nothing removed since the import of f returned
NoRemovals(f) == [file |-> f, removed |-> <<>>]

\* datetime.now()
NowAt(t) == [date |-> <<2026, 11, 1>>, hour |-> 12, minute |-> t, second |-> 0]

NoEvent == [title |-> <<>>]
NoDate == <<1, 1, 1>>

\* templates typed into classes.txt: one under the name the import
\* derives from TitleA, one under a name no import here derives
ManualTemplates ==
    [c \in {<<"E","C","E"," ","3","7","4"," ","-"," ","A","l","g","s">>, <<"M","A","T","H"," ","1","0","1"," ","-"," ","C","a","l","c","u","l","u","s">>} |->
       << [title |-> <<"R","e","a","d"," ","c","h","a","p","t","e","r">>, description |-> <<>>, priority |-> <<"l","o","w">>] >>]

InitTemplates == {EmptyDict, ManualTemplates}

\* classes.txt: not there, or the file ManualTemplates is read from
ClassesFiles ==
    {NoneValue,
     Some(<< <<"#"," ","m","y"," ","c","l","a","s","s","e","s">>, <<"E","C","E"," ","3","7","4"," ","-"," ","A","l","g","s">>, <<" "," ","[","l","o","w","]"," ","R","e","a","d"," ","c","h","a","p","t","e","r">>, <<>>,
             <<"M","A","T","H"," ","1","0","1"," ","-"," ","C","a","l","c","u","l","u","s">>, <<" "," ","[","l","o","w","]"," ","R","e","a","d"," ","c","h","a","p","t","e","r">> >>)}

\* default_config (the keys the model reads), a config file that turns
\* backups off, and a config file without the key
DefaultConfig == [backup_enabled |-> TRUE]
NoBackupConfig == [backup_enabled |-> FALSE]
KeylessConfig == [theme |-> "light"]
Configs == {DefaultConfig, NoBackupConfig, KeylessConfig}

\* the backup made whatever the config says
backup_always(cfg) == TRUE

\* self.config.get('backup_enabled', True)
backup_enabled(cfg) ==
    IF "backup_enabled" \in DOMAIN cfg THEN cfg.backup_enabled ELSE TRUE

\* the newest backup file after save_events
backup_after(cfg, store, backup) ==
    IF backup_enabled(cfg) THEN Some(store) ELSE backup

Locals0 ==
    /\ event = NoEvent
    /\ days = <<>>
    /\ until_date = NoDate
    /\ current_date = NoDate

\* the application after construction, no calendar_events.json on disk
InitStore ==
    /\ events = EmptyDict
    /\ events_file = NoneValue
    /\ backup_file = NoneValue
    /\ saves = 0
    /\ backups = 0
    /\ class_templates \in InitTemplates
    /\ classes_file \in {f \in ClassesFiles :
                             load_class_templates(EmptyDict, f, NoneValue) = class_templates}
    /\ ics_classes_file = NoneValue
    /\ ticks = 0
    /\ file = NoFile
    /\ ics_events = <<>>
    /\ i = 0
    /\ imported_count = 0
    /\ Locals0
    /\ result = NoneValue
    /\ start_events = EmptyDict
    /\ removals = NoRemovals(NoneValue)
    /\ last_file = NoneValue
    /\ repeat = FALSE
    /\ imports = 0
    /\ edits = 0

Init ==
    /\ InitStore
    /\ config = DefaultConfig
    /\ pc = "idle"
    /\ event_title = <<>>
    /\ class_name = NoneValue

ClassifierVars == <<event_title, class_name>>
TemplateFiles == <<classes_file, ics_classes_file>>
ExpansionVars == <<event, days, until_date, current_date>>
HistoryVars == <<start_events, removals, last_file, repeat>>
SaveVars == <<config, backup_file, saves, backups>>

\* self.events as load_events reads it from the events file
load_events(f) == IF f.kind = "None" THEN EmptyDict ELSE f.val

\* ------------------------------------------------- import_ics_events

\* events = self.parse_ics_file(file_path); imported_count = 0.  The call
\* is outside the try block: what it raised would leave the method.
ImportStart(f) ==
    /\ pc = "idle"
    /\ imports < MaxImports
    /\ file' = f
    /\ LET parsed == parse_ics_file(f) IN
       IF parsed.kind = "raise"
       THEN pc' = "raised" /\ UNCHANGED <<ics_events, i>>
       ELSE pc' = "loop" /\ ics_events' = parsed.val /\ i' = 1
    /\ imported_count' = 0
    /\ start_events' = events
    /\ repeat' = (last_file = Some(f))
    /\ imports' = imports + 1
    /\ saves' = 0
    /\ backups' = 0
    /\ UNCHANGED <<events, events_file, config, backup_file, class_templates, TemplateFiles, ticks,
                   ExpansionVars, result, removals, last_file, edits, ClassifierVars>>

\* the loop body without its try/except: the exception leaves the method
NoExceptPc == "raised"

\* The except clause of the loop body: print, continue.
ExceptPc == "loop"

\* One pass of the for loop's body up to the end of the record or to the
\* start of its while loop.
RecordStep ==
    /\ pc = "loop"
    /\ i <= Len(ics_events)
    /\ LET r     == Interpret(ics_events[i], NowAt(ticks))
           rrule == DictGet(ics_events[i], <<"R","R","U","L","E">>, <<>>)
       IN
       IF r.kind = "skip"
       THEN /\ pc' = "loop" /\ i' = i + 1
            /\ UNCHANGED <<events, imported_count, ExpansionVars>>
       ELSE IF r.kind = "raise"
       THEN /\ pc' = ExceptPc /\ i' = i + 1
            /\ UNCHANGED <<events, imported_count, ExpansionVars>>
       ELSE IF IsWeekly(rrule)
       THEN IF byday_match(rrule).kind = "None"
            THEN /\ pc' = "loop" /\ i' = i + 1
                 /\ UNCHANGED <<events, imported_count, ExpansionVars>>
            ELSE IF until_of(rrule).kind = "raise"
            THEN /\ pc' = ExceptPc /\ i' = i + 1
                 /\ UNCHANGED <<events, imported_count, ExpansionVars>>
            ELSE /\ pc' = "while"
                 /\ event' = r.event
                 /\ days' = split(byday_match(rrule).val, ",")
                 /\ until_date' = until_of(rrule).val
                 /\ current_date' = r.start_dt.date
                 /\ UNCHANGED <<events, imported_count, i>>
       ELSE LET t == TryInsert(events, isoformat(r.start_dt.date), r.event) IN
            IF t.kind = "raise"
            THEN /\ pc' = ExceptPc /\ i' = i + 1
                 /\ UNCHANGED <<events, imported_count, ExpansionVars>>
            ELSE /\ pc' = "loop" /\ i' = i + 1
                 /\ events' = t.store
                 /\ imported_count' = imported_count + (IF t.inserted THEN 1 ELSE 0)
                 /\ UNCHANGED ExpansionVars
    /\ UNCHANGED <<events_file, SaveVars, class_templates, TemplateFiles, ticks, file, ics_events,
                   result, HistoryVars, imports, edits, ClassifierVars>>

\* One test of "while current_date <= until_date" and, when it holds, one
\* pass of the body.
WhileStep ==
    /\ pc = "while"
    /\ IF ~DateLE(current_date, until_date)
       THEN /\ pc' = "loop" /\ i' = i + 1
            /\ event' = NoEvent /\ days' = <<>>
            /\ until_date' = NoDate /\ current_date' = NoDate
            /\ UNCHANGED <<events, imported_count>>
       ELSE LET t == IF DayMatches(days, current_date)
                     THEN TryInsert(events, isoformat(current_date), event)
                     ELSE [kind |-> "value", store |-> events, inserted |-> FALSE]
            IN
            IF t.kind = "raise"
            THEN /\ pc' = ExceptPc /\ i' = i + 1
                 /\ event' = NoEvent /\ days' = <<>>
                 /\ until_date' = NoDate /\ current_date' = NoDate
                 /\ UNCHANGED <<events, imported_count>>
            ELSE /\ events' = t.store
                 /\ imported_count' = imported_count + (IF t.inserted THEN 1 ELSE 0)
                 /\ IF current_date = <<9999, 12, 31>>
                    THEN /\ pc' = ExceptPc /\ i' = i + 1
                         /\ event' = NoEvent /\ days' = <<>>
                         /\ until_date' = NoDate /\ current_date' = NoDate
                    ELSE /\ current_date' = NextDay(current_date)
                         /\ UNCHANGED <<pc, i, event, days, until_date>>
    /\ UNCHANGED <<events_file, SaveVars, class_templates, TemplateFiles, ticks, file, ics_events,
                   result, HistoryVars, imports, edits, ClassifierVars>>

\* self.save_events() once the loop is over (the write succeeds)
save_events ==
    /\ pc = "loop"
    /\ i > Len(ics_events)
    /\ events_file' = Some(events)
    /\ backup_file' = backup_after(config, events, backup_file)
    /\ saves' = saves + 1
    /\ backups' = backups + (IF backup_enabled(config) THEN 1 ELSE 0)
    /\ pc' = "extract"
    /\ UNCHANGED <<events, config, class_templates, TemplateFiles, ticks, file, ics_events, i,
                   imported_count, ExpansionVars, result, HistoryVars, imports,
                   edits, ClassifierVars>>

\* self.extract_class_templates_from_events()
Extract ==
    /\ pc = "extract"
    /\ class_templates' = extract_class_templates_from_events(class_templates, events)
    /\ ics_classes_file' = classes_from_ics(ics_classes_file, events)
    /\ UNCHANGED classes_file
    /\ pc' = "return"
    /\ UNCHANGED <<events, events_file, SaveVars, ticks, file, ics_events, i,
                   imported_count, ExpansionVars, result, HistoryVars, imports, edits,
                   ClassifierVars>>

\* return imported_count
ReturnCount ==
    /\ pc = "return"
    /\ result' = Some(imported_count)
    /\ pc' = "idle"
    /\ file' = NoFile
    /\ ics_events' = <<>>
    /\ i' = 0
    /\ imported_count' = 0
    /\ start_events' = EmptyDict
    /\ repeat' = FALSE
    /\ saves' = 0
    /\ backups' = 0
    /\ UNCHANGED <<events, events_file, config, backup_file, class_templates, TemplateFiles, ticks,
                   ExpansionVars, imports, edits, ClassifierVars>>

Return == ReturnCount /\ last_file' = NoneValue /\ removals' = NoRemovals(NoneValue)

\* the same, the history remembering which file was imported
ReturnRemember ==
    ReturnCount /\ last_file' = Some(file) /\ removals' = NoRemovals(Some(file))

\* the clock moves on (it is read by the loop body only)
Tick ==
    /\ pc \in {"idle", "loop"}
    /\ ticks < MaxTicks
    /\ ticks' = ticks + 1
    /\ UNCHANGED <<events, events_file, SaveVars, class_templates, TemplateFiles, pc, file,
                   ics_events, i, imported_count, ExpansionVars, result, HistoryVars,
                   imports,
                   edits, ClassifierVars>>

\* ------------------------------- add_event, remove_event, update_event

\* the key kept, with an empty list
DictEmptied(d, key) == DictSet(d, key, <<>>)

DictDel(d, key) == [k \in (DOMAIN d) \ {key} |-> d[k]]

\* list.pop(index), index from 0
Pop(lst, index) == SubSeq(lst, 1, index) \o SubSeq(lst, index + 2, Len(lst))

EditFrame ==
    /\ last_file' = NoneValue
    /\ edits' = edits + 1
    /\ UNCHANGED <<config, saves, backups, class_templates, TemplateFiles, ticks, pc, file,
                   ics_events, i, imported_count, ExpansionVars, result, start_events,
                   repeat, imports, ClassifierVars>>

\* self.save_events() as a store operation calls it (the writes succeed)
Saved ==
    /\ events_file' = Some(events')
    /\ backup_file' = backup_after(config, events', backup_file)

\* the history of removals after remove_event(date_str, event_index)
Removed(history, store, date_str, event_index) ==
    IF date_str \in DOMAIN store
       /\ 0 <= event_index /\ event_index < Len(store[date_str])
    THEN [history EXCEPT !.removed =
            Append(@, <<date_str, store[date_str][event_index + 1]>>)]
    ELSE history

\* remove_event that saves whether or not it removed an event
remove_event_saving(d, event_index) ==
    /\ pc = "idle"
    /\ edits < MaxEdits
    /\ events' = IF isoformat(d) \in DOMAIN events
                    /\ 0 <= event_index /\ event_index < Len(events[isoformat(d)])
                 THEN IF Len(events[isoformat(d)]) = 1
                      THEN [k \in (DOMAIN events) \ {isoformat(d)} |-> events[k]]
                      ELSE DictSet(events, isoformat(d),
                                   SubSeq(events[isoformat(d)], 1, event_index)
                                   \o SubSeq(events[isoformat(d)], event_index + 2,
                                             Len(events[isoformat(d)])))
                 ELSE events
    /\ events_file' = Some(events')
    /\ backup_file' = backup_after(config, events', backup_file)
    /\ removals' = Removed(removals, events, isoformat(d), event_index)
    /\ last_file' = NoneValue
    /\ edits' = edits + 1
    /\ UNCHANGED <<config, saves, backups, class_templates, TemplateFiles, ticks, pc, file,
                   ics_events, i, imported_count, ExpansionVars, result, start_events,
                   repeat, imports, ClassifierVars>>

\* remove_event that forgets to save
remove_event_unsaved(d, event_index) ==
    /\ pc = "idle"
    /\ edits < MaxEdits
    /\ IF isoformat(d) \in DOMAIN events
          /\ 0 <= event_index /\ event_index < Len(events[isoformat(d)])
       THEN events' = IF Len(events[isoformat(d)]) = 1
                      THEN DictDel(events, isoformat(d))
                      ELSE DictSet(events, isoformat(d),
                                   Pop(events[isoformat(d)], event_index))
       ELSE UNCHANGED events
    /\ removals' = Removed(removals, events, isoformat(d), event_index)
    /\ UNCHANGED <<events_file, backup_file>>
    /\ EditFrame

add_event(d, ev) ==
    /\ pc = "idle"
    /\ edits < MaxEdits
    /\ events' = DictSet(events, isoformat(d),
                         Append(DictGet(events, isoformat(d), <<>>), ev))
    /\ Saved
    /\ UNCHANGED removals
    /\ EditFrame

remove_event(d, event_index) ==
    /\ pc = "idle"
    /\ edits < MaxEdits
    /\ IF isoformat(d) \in DOMAIN events
          /\ 0 <= event_index /\ event_index < Len(events[isoformat(d)])
       THEN /\ events' = IF Len(events[isoformat(d)]) = 1
                         THEN DictDel(events, isoformat(d))
                         ELSE DictSet(events, isoformat(d),
                                      Pop(events[isoformat(d)], event_index))
            /\ Saved
       ELSE UNCHANGED <<events, events_file, backup_file>>
    /\ removals' = Removed(removals, events, isoformat(d), event_index)
    /\ EditFrame

update_event(d, event_index, updated_event) ==
    /\ pc = "idle"
    /\ edits < MaxEdits
    /\ IF isoformat(d) \in DOMAIN events
          /\ 0 <= event_index /\ event_index < Len(events[isoformat(d)])
       THEN /\ events' = DictSet(events, isoformat(d),
                                 [events[isoformat(d)] EXCEPT ![event_index + 1] = updated_event])
            /\ Saved
       ELSE UNCHANGED <<events, events_file, backup_file>>
    /\ UNCHANGED removals
    /\ EditFrame

\* Imports of the files of Files, the clock, and events added by hand.
Next ==
    \/ \E f \in Files : ImportStart(f)
    \/ RecordStep
    \/ WhileStep
    \/ save_events
    \/ Extract
    \/ Return
    \/ Tick
    \/ \E d \in AddDates, t \in ManualTitles : add_event(d, ManualEvent(t, d))

Spec == Init /\ [][Next]_vars

\* An import, then imports of the same file again.
NextTwice ==
    \/ \E f \in Files : (last_file \in {NoneValue, Some(f)}) /\ ImportStart(f)
    \/ RecordStep
    \/ WhileStep
    \/ save_events
    \/ Extract
    \/ ReturnRemember
    \/ Tick
    \/ \E d \in AddDates, t \in ManualTitles :
         imports = 0 /\ add_event(d, ManualEvent(t, d))

SpecTwice == Init /\ [][NextTwice]_vars

\* Imports of a few files with every store operation in between.
EditFiles == {FileDup, FileWeekly}

NextEdit ==
    \/ \E f \in EditFiles : ImportStart(f)
    \/ RecordStep
    \/ WhileStep
    \/ save_events
    \/ Extract
    \/ Return
    \/ \E d \in OpDates, t \in ManualTitles : add_event(d, ManualEvent(t, d))
    \/ \E d \in OpDates, k \in (0 - 1)..MaxIndex : remove_event(d, k)
    \/ \E d \in OpDates, k \in (0 - 1)..MaxIndex, t \in ManualTitles :
         update_event(d, k, ManualEvent(t, d))

SpecEdit == Init /\ [][NextEdit]_vars

\* reload_class_templates (the message box shows the number of classes)
reload_class_templates ==
    /\ pc = "idle"
    /\ edits < MaxEdits
    /\ edits' = edits + 1
    /\ class_templates' = load_class_templates(class_templates, classes_file,
                                               ics_classes_file)
    /\ UNCHANGED <<events, events_file, SaveVars, TemplateFiles, ticks, pc, file,
                   ics_events, i, imported_count, ExpansionVars, result, HistoryVars,
                   imports, ClassifierVars>>

\* Imports with the class templates reloaded in between.
\* records whose titles no pattern matches: no SUMMARY, 'Team Meeting', ''
FileUnclassified ==
    TextFile(EvBadEnd \o EvEarly
             \o VEVENT(<<<<"S","U","M","M","A","R","Y",":">>, <<"D","T","S","T","A","R","T",":","2","0","2","5","0","1","0","3","T","0","9","0","0","0","0">>,
                         <<"D","T","E","N","D",":","2","0","2","5","0","1","0","3","T","1","0","0","0","0","0">>>>))

ReloadFiles == {FileWeekly, FileUnclassified, Unreadable}

NextReload ==
    \/ \E f \in ReloadFiles : ImportStart(f)
    \/ RecordStep
    \/ WhileStep
    \/ save_events
    \/ Extract
    \/ Return
    \/ reload_class_templates

SpecReload == Init /\ [][NextReload]_vars

\* An import, removals, and the import of the same file again, the clock
\* running.
ReimportFiles == {FileBadStart, FileDup, FileWeekly}
ReimportDates == OpDates \cup {NowAt(0).date}

NextReimport ==
    \/ \E f \in ReimportFiles : (removals.file \in {NoneValue, Some(f)}) /\ ImportStart(f)
    \/ RecordStep
    \/ WhileStep
    \/ save_events
    \/ Extract
    \/ ReturnRemember
    \/ Tick
    \/ \E d \in ReimportDates, k \in 0..MaxIndex : imports > 0 /\ remove_event(d, k)

SpecReimport == Init /\ [][NextReimport]_vars

\* Imports under every config, with events added by hand in between.
SaveFiles == {FileDup, FileWeekly, FileBadEndDefault, FileBadEnds, Unreadable}

InitSave ==
    /\ InitStore
    /\ config \in Configs
    /\ pc = "idle"
    /\ event_title = <<>>
    /\ class_name = NoneValue

NextSave ==
    \/ \E f \in SaveFiles : ImportStart(f)
    \/ RecordStep
    \/ WhileStep
    \/ save_events
    \/ Extract
    \/ Return
    \/ \E t \in ManualTitles : add_event(<<2025, 1, 6>>, ManualEvent(t, <<2025, 1, 6>>))

SpecSave == InitSave /\ [][NextSave]_vars

\* ------------------------------------- weekly records, one per file

MaxByDay == 2

DayNames == <<<<"M","O">>, <<"T","U">>, <<"W","E">>, <<"T","H">>, <<"F","R">>, <<"S","A">>, <<"S","U">>>>

\* the weekdays (0 = Monday) a generated BYDAY list is drawn from
ByDayPool == {0, 2, 6}
ByDaySets == {S \in SUBSET ByDayPool : S # {} /\ Cardinality(S) <= MaxByDay}

\* the names of the weekdays of S from weekday k on, in week order
RECURSIVE ByDayFrom(_, _)
ByDayFrom(S, k) ==
    IF k > 6 THEN <<>>
    ELSE IF k \in S THEN <<DayNames[k + 1]>> \o ByDayFrom(S, k + 1)
    ELSE ByDayFrom(S, k + 1)

RECURSIVE JoinSep(_, _)
JoinSep(parts, sep) ==
    IF Len(parts) = 0 THEN <<>>
    ELSE IF Len(parts) = 1 THEN parts[1]
    ELSE parts[1] \o sep \o JoinSep(Tail(parts), sep)

Ymd(d) == Fmt4(d[1]) \o Fmt2(d[2]) \o Fmt2(d[3])

StartDates == {<<2025, 1, 1>>, <<2025, 12, 20>>}

\* the UNTIL part of the rule, and the date the expansion has to stop at
Untils ==
    { <<<<>>, <<2025, 12, 31>>>>,
      <<<<";","U","N","T","I","L","=","2","0","2","5","0","1","1","5">>, <<2025, 1, 15>>>>,
      <<<<";","U","N","T","I","L","=","2","0","2","5","1","2","2","5","T","2","3","5","9","5","9","Z">>, <<2025, 12, 25>>>> }

WeeklyFile(d, S, until_part) ==
    TextFile(VEVENT(<<<<"S","U","M","M","A","R","Y",":","A","l","g","s"," ","E","C","E"," ","3","7","4"," ","B","Y","A">>,
                      <<"D","T","S","T","A","R","T",":">> \o Ymd(d) \o <<"T","0","9","0","0","0","0">>,
                      <<"D","T","E","N","D",":">> \o Ymd(d) \o <<"T","1","0","0","0","0","0">>,
                      <<"R","R","U","L","E",":","F","R","E","Q","=","W","E","E","K","L","Y",";","B","Y","D","A","Y","=">> \o JoinSep(ByDayFrom(S, 0), <<",">>)
                         \o until_part>>))

WeeklyFiles ==
    {WeeklyFile(d, S, u[1]) : d \in StartDates, S \in ByDaySets, u \in Untils}

\* One import of one weekly record into the empty store.
NextExpand ==
    \/ \E f \in WeeklyFiles : imports = 0 /\ ImportStart(f)
    \/ RecordStep
    \/ WhileStep
    \/ save_events
    \/ Extract
    \/ Return

SpecExpand == Init /\ [][NextExpand]_vars

\* The same import with its steps taken one after the other: the method
\* runs on the calling thread, so a step that can be taken is taken.  The
\* fairness of RecordStep and of Extract is written with their enabling
\* conditions, the first conjuncts of the two actions (every branch of
\* either changes pc or i).
SpecTerminate ==
    /\ Init
    /\ [][NextExpand]_vars
    /\ ([]<>~(pc = "loop" /\ i <= Len(ics_events)) \/ []<><<RecordStep>>_vars)
    /\ WF_vars(WhileStep)
    /\ WF_vars(save_events)
    /\ ([]<>(pc # "extract") \/ []<><<Extract>>_vars)
    /\ WF_vars(Return)

\* ------------------------------------------- files built line by line

MaxLines == 4

BeginLine == <<"B","E","G","I","N",":","V","E","V","E","N","T">>
EndLine == <<"E","N","D",":","V","E","V","E","N","T">>
DescriptionLine == <<"D","E","S","C","R","I","P","T","I","O","N",":","f","i","r","s","t"," ","l","i","n","e">>

LineLib ==
    {BeginLine, EndLine, DescriptionLine, <<" ","s","e","c","o","n","d"," ","l","i","n","e">>,
     <<" ","D","E","S","C","R","I","P","T","I","O","N",":","f","o","l","d","e","d">>, <<"S","U","M","M","A","R","Y",":","T","e","a","m"," ","M","e","e","t","i","n","g">>}

ParseFiles ==
    {TextFile(ls) : ls \in UNION {[1..n -> LineLib] : n \in 0..MaxLines}}

\* One import of one such file (no record of it has a DTSTART).
NextParse ==
    \/ \E f \in ParseFiles : imports = 0 /\ ImportStart(f)
    \/ RecordStep
    \/ save_events
    \/ Extract
    \/ Return

SpecParse == Init /\ [][NextParse]_vars

\* ------------------------------------------------ titles to classify

MaxWords == 2

ReferenceTitles ==
    {<<"I","n","t","r","o"," ","t","o"," ","A","l","g","s"," ","&"," ","M","o","d","e","l","s"," ","o","f"," ","C","o","m","p"," ","E","C","E"," ","3","7","4"," ","B","Y","A">>,
     <<"I","n","t","r","o"," ","t","o"," ","A","l","g","s"," ","&","a","m","p",";"," ","M","o","d","e","l","s"," ","o","f"," ","C","o","m","p"," ","E","C","E"," ","3","7","4"," ","B","Y","A">>,
     <<"A","p","p","l","i","e","d"," ","P","a","r","a","l","l","e","l"," ","P","r","o","g","r","a","m","m","i","n","g"," ","E","C","E"," ","4","0","8"," ","A","L","1">>,
     <<"I","c","e"," ","S","k","a","t","i","n","g"," ","H","K"," ","1","0","4"," ","A","3">>,
     <<"P","r","i","n","c","i","p","l","e","s"," ","o","f"," ","S","a","f","e"," ","A","u","t","o","n","o","m","y"," ","E","C","E"," ","4","8","4"," ","A","L","1">>,
     <<"T","e","a","m"," ","M","e","e","t","i","n","g">>}

SubjectWords == {<<"I","c","e">>, <<"S","k","a","t","i","n","g">>, <<"&","a","m","p",";">>, <<"o","f">>, <<"H","K"," ","1","0","4">>, <<"L","a","b">>}
Codes == {<<"E","C","E"," ","3","7","4">>, <<"H","K"," ","1","0","4">>, <<"M","A","T","H"," "," ","1","0","1">>}
Sections == {<<"B","Y","A">>, <<"A","3">>, <<"A","L","1">>, <<"A">>}

\* the subjects of up to n words
RECURSIVE Phrases(_)
Phrases(n) ==
    IF n = 0 THEN {}
    ELSE SubjectWords \cup
         {p \o <<" ">> \o w : p \in Phrases(n - 1), w \in SubjectWords}

ShapeTitles ==
    {s \o <<" ">> \o c \o <<" ">> \o x : s \in Phrases(MaxWords), c \in Codes, x \in Sections}

\* titles that several patterns match, that one pattern matches, that none
\* matches
CascadeTitles ==
    {<<"E","C","E"," ","3","7","4"," ","E","C","E"," ","4","0","8"," ","A","L","1">>, <<"E","C","E","3","7","4"," ","A","p","p","l","i","e","d"," ","P","r","o","g","r","a","m","m","i","n","g">>,
     <<"E","C","E"," ","3","7","4"," ","A","p","p","l","i","e","d"," ","P","r","o","g","r","a","m","m","i","n","g"," ","L","a","b">>, <<"L","a","b"," ","f","o","r"," ","M","A","T","H"," ","1","0","1"," ","t","o","d","a","y">>,
     <<"M","A","T","H"," ","1","0","1">>, <<"C","S"," ","1","2"," ","A","B">>, <<" "," ">>,
     <<"E","C","E"," ","3","7","4"," ","A","p","p","l","i","e","d"," ","P","r","o","g","r","a","m","m","i","n","g">>, <<"E","C","E"," ","3","7","4"," ","A","d","v","a","n","c","e","d"," ","L","a","b"," ","T","e","c","h","n","i","q","u","e","s">>,
     <<"H","K"," ","1","0","4"," ","I","c","e"," ","S","k","a","t","i","n","g"," ","A","L","1">>, <<"U","n","t","i","t","l","e","d"," ","E","v","e","n","t">>}

Titles == ReferenceTitles \cup ShapeTitles \cup CascadeTitles

InitClassify ==
    /\ InitStore
    /\ config = DefaultConfig
    /\ pc = "parse_class_name"
    /\ event_title \in Titles
    /\ class_name = NoneValue

\* class_name = self.parse_class_name(event_title)
Classify ==
    /\ pc = "parse_class_name"
    /\ class_name' = parse_class_name(event_title)
    /\ pc' = "idle"
    /\ UNCHANGED <<events, events_file, SaveVars, class_templates, TemplateFiles, ticks, file,
                   ics_events, i, imported_count, ExpansionVars, result, HistoryVars,
                   imports,
                   edits, event_title>>

SpecClassify == InitClassify /\ [][Classify]_vars

\* --------------------------- records with and without a weekly rule

MaxRecords == 2

\* the RRULE line of a record, or none
RuleLines ==
    { <<>>,
      <<<<"R","R","U","L","E",":">>>>,
      <<<<"R","R","U","L","E",":","F","R","E","Q","=","D","A","I","L","Y",";","U","N","T","I","L","=","2","0","2","5","0","1","1","0">>>>,
      <<<<"R","R","U","L","E",":","F","R","E","Q","=","M","O","N","T","H","L","Y",";","B","Y","D","A","Y","=","M","O">>>>,
      <<<<"R","R","U","L","E",":","F","R","E","Q","=","W","E","E","K","L","Y">>>>,
      <<<<"R","R","U","L","E",":","F","R","E","Q","=","W","E","E","K","L","Y",";","U","N","T","I","L","=","2","0","2","5","0","1","1","5">>>>,
      <<<<"R","R","U","L","E",":","F","R","E","Q","=","W","E","E","K","L","Y",";","B","Y","D","A","Y","=","M","O",";","U","N","T","I","L","=","2","0","2","5","0","1","0","7">>>> }

\* those of them the records with a time zone or without a time come with
FewRuleLines ==
    { <<>>,
      <<<<"R","R","U","L","E",":","F","R","E","Q","=","D","A","I","L","Y",";","U","N","T","I","L","=","2","0","2","5","0","1","1","0">>>>,
      <<<<"R","R","U","L","E",":","F","R","E","Q","=","W","E","E","K","L","Y",";","U","N","T","I","L","=","2","0","2","5","0","1","1","5">>>> }

\* DTSTART and DTEND lines of a record, with the value, the date and the
\* times they stand for, and the rules the record is generated with
RuleStarts ==
    { [lines      |-> <<<<"D","T","S","T","A","R","T",":","2","0","2","5","0","1","0","6","T","1","4","0","0","0","0">>, <<"D","T","E","N","D",":","2","0","2","5","0","1","0","6","T","1","5","0","0","0","0">>>>,
       value      |-> <<"2","0","2","5","0","1","0","6","T","1","4","0","0","0","0">>,
       date       |-> <<"2","0","2","5","-","0","1","-","0","6">>,
       start_time |-> <<"1","4",":","0","0">>,
       end_time   |-> <<"1","5",":","0","0">>,
       rules      |-> RuleLines],
      [lines      |-> <<<<"D","T","S","T","A","R","T",";","T","Z","I","D","=","A","m","e","r","i","c","a","/","C","h","i","c","a","g","o",":","2","0","2","5","0","2","2","8","T","2","3","5","9","0","0">>,
                        <<"D","T","E","N","D",";","T","Z","I","D","=","A","m","e","r","i","c","a","/","C","h","i","c","a","g","o",":","2","0","2","5","0","3","0","1","T","0","1","0","0","0","0">>>>,
       value      |-> <<"2","0","2","5","0","2","2","8","T","2","3","5","9","0","0">>,
       date       |-> <<"2","0","2","5","-","0","2","-","2","8">>,
       start_time |-> <<"2","3",":","5","9">>,
       end_time   |-> <<"0","1",":","0","0">>,
       rules      |-> FewRuleLines],
      [lines      |-> <<<<"D","T","S","T","A","R","T",";","V","A","L","U","E","=","D","A","T","E",":","2","0","2","4","1","2","3","1">>, <<"D","T","E","N","D",";","V","A","L","U","E","=","D","A","T","E",":","2","0","2","5","0","1","0","1">>>>,
       value      |-> <<"2","0","2","4","1","2","3","1">>,
       date       |-> <<"2","0","2","4","-","1","2","-","3","1">>,
       start_time |-> <<"0","0",":","0","0">>,
       end_time   |-> <<"0","0",":","0","0">>,
       rules      |-> FewRuleLines] }

RuleRecords ==
    UNION {{VEVENT(<<<<"S","U","M","M","A","R","Y",":","T","e","a","m"," ","M","e","e","t","i","n","g">>>> \o s.lines \o r) : r \in s.rules} :
             s \in RuleStarts}

RECURSIVE Concat(_)
Concat(blocks) ==
    IF Len(blocks) = 0 THEN <<>> ELSE blocks[1] \o Concat(Tail(blocks))

RuleFiles ==
    {TextFile(Concat(rs)) :
       rs \in UNION {[1..n -> RuleRecords] : n \in 1..MaxRecords}}

\* One import of one such file into the empty store.
NextRules ==
    \/ \E f \in RuleFiles : imports = 0 /\ ImportStart(f)
    \/ RecordStep
    \/ WhileStep
    \/ save_events
    \/ Extract
    \/ Return

SpecRules == Init /\ [][NextRules]_vars

\* =========================================================== properties

\* the record the loop is at, and what the interpreter makes of it now
Rec == ics_events[i]
AtRecord == pc = "loop" /\ i <= Len(ics_events)

\* e has the title and the start_time given
SameKey(e, title, start_time) ==
    /\ "title" \in DOMAIN e /\ e.title = title
    /\ "start_time" \in DOMAIN e /\ e.start_time = start_time

HasKey(lst, title, start_time) ==
    \E k \in 1..Len(lst) : SameKey(lst[k], title, start_time)

\* ------------------------------------------------------------------ C1
\* C1: importing the same file a second time, right after the first
\* import of it, leaves the store as the first import left it: in every
\* state of the second run the store equals the store the run started
\* with.  (Checked under SpecTwice.)
C1_SecondImportChangesNothing == repeat => events = start_events

\* ------------------------------------------------------------------ C2
\* an attempt to insert ev on date d inserts (appends ev to the entries of
\* d and changes nothing else) exactly when no entry of d has ev's title
\* and start_time
C2_Attempt(d, ev) ==
    LET lst == DictGet(events, d, <<>>) IN
    IF HasKey(lst, ev.title, ev.start_time)
    THEN events' = events
    ELSE events' = DictSet(events, d, Append(lst, calendar_event(ev)))

\* C2: the dedup key is exactly (date, title, start_time): whenever the
\* import comes to insert a concrete event on a date, in the single branch
\* or in the weekly loop, the event is inserted if and only if no entry of
\* that date, however it got there, has the same title and the same
\* start_time.
C2_DedupKey ==
    [][ /\ ( /\ AtRecord /\ i' = i + 1
             /\ Interpret(Rec, NowAt(ticks)).kind = "event"
             /\ ~IsWeekly(DictGet(Rec, <<"R","R","U","L","E">>, <<>>)) )
           => C2_Attempt(isoformat(Interpret(Rec, NowAt(ticks)).start_dt.date),
                         Interpret(Rec, NowAt(ticks)).event)
        /\ ( /\ pc = "while"
             /\ DateLE(current_date, until_date)
             /\ DayMatches(days, current_date) )
           => C2_Attempt(isoformat(current_date), event) ]_vars

\* ------------------------------------------------------------------ C3
\* the dates of 2025 from d to until whose weekday is in S
C3_Dates(d, until, S) ==
    {x \in {<<2025, m, dd>> : m \in 1..12, dd \in 1..31} :
       /\ ValidDate(x[1], x[2], x[3])
       /\ toordinal(d) <= toordinal(x)
       /\ toordinal(x) <= toordinal(until)
       /\ weekday(x) \in S}

\* every date of the store holds the seed alone: title and times unchanged
C3_SeedOnEveryDate ==
    \A key \in DOMAIN events :
       /\ Len(events[key]) = 1
       /\ events[key][1].title = TitleA
       /\ events[key][1].start_time = <<"0","9",":","0","0">>
       /\ events[key][1].end_time = <<"1","0",":","0","0">>

\* C3: a FREQ=WEEKLY record with a BYDAY list, imported into the empty
\* store, puts an event on exactly the dates d with
\* date(DTSTART) <= d <= until and weekday(d) in BYDAY, until being the
\* UNTIL value or 2025-12-31 when there is none, each event with the
\* seed's title, start_time and end_time; DTSTART 2025-01-01 with
\* BYDAY=MO,WE and UNTIL=20250115 gives 01-01, 01-06, 01-08, 01-13 and
\* 01-15.  (Checked under SpecExpand.)
C3_WeeklyExpansionExact ==
    pc = "return" =>
      /\ \A d \in StartDates, S \in ByDaySets, u \in Untils :
           file = WeeklyFile(d, S, u[1]) =>
             /\ DOMAIN events = {isoformat(x) : x \in C3_Dates(d, u[2], S)}
             /\ C3_SeedOnEveryDate
      /\ file = WeeklyFile(<<2025, 1, 1>>, {0, 2}, <<";","U","N","T","I","L","=","2","0","2","5","0","1","1","5">>) =>
           DOMAIN events = {<<"2","0","2","5","-","0","1","-","0","1">>, <<"2","0","2","5","-","0","1","-","0","6">>, <<"2","0","2","5","-","0","1","-","0","8">>,
                            <<"2","0","2","5","-","0","1","-","1","3">>, <<"2","0","2","5","-","0","1","-","1","5">>}

C3_Witness ==
    /\ pc = "return"
    /\ file = WeeklyFile(<<2025, 1, 1>>, {0, 2}, <<";","U","N","T","I","L","=","2","0","2","5","0","1","1","5">>)
    /\ Cardinality(DOMAIN events) = 5
    /\ imported_count = 5

\* ------------------------------------------------------------------ C4
\* C4: a record with a valid DTSTART and no DTEND is imported: once the
\* loop is past it, the date of its start holds an entry with its title
\* and start_time, and the entry the step inserted ends when it starts.
C4_MissingEndImported ==
    [][ ( /\ AtRecord /\ i' = i + 1
          /\ <<"D","T","S","T","A","R","T">> \in DOMAIN Rec
          /\ parse_ics_datetime_try(Rec[<<"D","T","S","T","A","R","T">>]).kind = "value"
          /\ <<"D","T","E","N","D">> \notin DOMAIN Rec
          /\ <<"R","R","U","L","E">> \notin DOMAIN Rec )
        => LET start == parse_ics_datetime_try(Rec[<<"D","T","S","T","A","R","T">>]).val
               title == DictGet(Rec, <<"S","U","M","M","A","R","Y">>, <<"U","n","t","i","t","l","e","d"," ","E","v","e","n","t">>)
               lst   == DictGet(events', isoformat(start.date), <<>>)
           IN  /\ HasKey(lst, title, strftime_HM(start))
               /\ events' # events
                    => lst[Len(lst)].end_time = strftime_HM(start) ]_vars

\* ------------------------------------------------------------------ C5
\* the fields of the record do not yield an event: no start, or an
\* exception while the start, the end or the UNTIL date is computed
FailsInterpretation(rec, now) ==
    \/ Interpret(rec, now).kind \in {"skip", "raise"}
    \/ /\ IsWeekly(DictGet(rec, <<"R","R","U","L","E">>, <<>>))
       /\ byday_match(DictGet(rec, <<"R","R","U","L","E">>, <<>>)).kind = "value"
       /\ until_of(DictGet(rec, <<"R","R","U","L","E">>, <<>>)).kind = "raise"

\* what importing EvA alone into the empty store leaves
C5_OneEvent ==
    [d \in {<<"2","0","2","5","-","0","1","-","0","1">>} |->
       << [title         |-> TitleA,
           description   |-> <<>>,
           location      |-> <<>>,
           start_time    |-> <<"0","9",":","0","0">>,
           end_time      |-> <<"1","0",":","0","0">>,
           all_day       |-> FALSE,
           category      |-> "class",
           imported_from |-> "ics"] >>]

C5_NoEscape ==
    /\ pc # "raised"
    /\ (pc = "return" /\ file = FileGoodNoStart /\ start_events = EmptyDict)
         => (imported_count = 1 /\ events = C5_OneEvent)

\* C5: a record that fails interpretation is as good as absent: no
\* exception leaves import_ics_events, and the step over such a record
\* changes neither the store nor the count and goes on with the next
\* record; the file of one well-formed VEVENT and one VEVENT without
\* DTSTART, imported into the empty store, returns 1 and leaves the one
\* event.
C5_RecordIsolation ==
    /\ []C5_NoEscape
    /\ [][ (AtRecord /\ i' # i /\ FailsInterpretation(Rec, NowAt(ticks)))
           => /\ events' = events
              /\ imported_count' = imported_count
              /\ pc' = "loop"
              /\ i' = i + 1 ]_vars

C5_Witness ==
    /\ pc = "return"
    /\ file = FileGoodNoStart
    /\ start_events = EmptyDict
    /\ imported_count = 1

\* ------------------------------------------------------------------ C6
\* DTSTART is missing, or is neither YYYYMMDD nor YYYYMMDDTHHMMSS
NoUsableStart(rec) ==
    \/ <<"D","T","S","T","A","R","T">> \notin DOMAIN rec
    \/ parse_ics_datetime_try(rec[<<"D","T","S","T","A","R","T">>]).kind # "value"

\* C6: a record without a usable start time is dropped: no step over such
\* a record changes the store.
C6_NoStartNoImport ==
    [][ (AtRecord /\ NoUsableStart(Rec)) => events' = events ]_vars

\* ------------------------------------------------------------------ C7
\* C7: the import of a file that cannot be read raises nothing, leaves the
\* entries of every date as they were, and returns 0.
C7_UnreadableFile ==
    (pc # "idle" /\ ~file.readable) =>
      /\ pc # "raised"
      /\ events = start_events
      /\ imported_count = 0

C7_Witness ==
    /\ pc = "return"
    /\ ~file.readable
    /\ events # EmptyDict
    /\ imported_count = 0

\* ------------------------------------------------------------------ C8
C8_Reference ==
    { <<<<"I","n","t","r","o"," ","t","o"," ","A","l","g","s"," ","&"," ","M","o","d","e","l","s"," ","o","f"," ","C","o","m","p"," ","E","C","E"," ","3","7","4"," ","B","Y","A">>,
        Some(<<"E","C","E"," ","3","7","4"," ","-"," ","I","n","t","r","o"," ","t","o"," ","A","l","g","s"," ","&"," ","M","o","d","e","l","s"," ","o","f"," ","C","o","m","p">>)>>,
      <<<<"I","n","t","r","o"," ","t","o"," ","A","l","g","s"," ","&","a","m","p",";"," ","M","o","d","e","l","s"," ","o","f"," ","C","o","m","p"," ","E","C","E"," ","3","7","4"," ","B","Y","A">>,
        Some(<<"E","C","E"," ","3","7","4"," ","-"," ","I","n","t","r","o"," ","t","o"," ","A","l","g","s"," ","&"," ","M","o","d","e","l","s"," ","o","f"," ","C","o","m","p">>)>>,
      <<<<"A","p","p","l","i","e","d"," ","P","a","r","a","l","l","e","l"," ","P","r","o","g","r","a","m","m","i","n","g"," ","E","C","E"," ","4","0","8"," ","A","L","1">>,
        Some(<<"E","C","E"," ","4","0","8"," ","-"," ","A","p","p","l","i","e","d"," ","P","a","r","a","l","l","e","l"," ","P","r","o","g","r","a","m","m","i","n","g">>)>>,
      <<<<"I","c","e"," ","S","k","a","t","i","n","g"," ","H","K"," ","1","0","4"," ","A","3">>, Some(<<"H","K"," ","1","0","4"," ","-"," ","I","c","e"," ","S","k","a","t","i","n","g">>)>>,
      <<<<"P","r","i","n","c","i","p","l","e","s"," ","o","f"," ","S","a","f","e"," ","A","u","t","o","n","o","m","y"," ","E","C","E"," ","4","8","4"," ","A","L","1">>,
        Some(<<"E","C","E"," ","4","8","4"," ","-"," ","P","r","i","n","c","i","p","l","e","s"," ","o","f"," ","S","a","f","e"," ","A","u","t","o","n","o","m","y">>)>>,
      <<<<"T","e","a","m"," ","M","e","e","t","i","n","g">>, NoneValue>> }

\* C8: parse_class_name gives the reference results, and a title
\* "<Subject> <CODE> <Section>" gives "<CODE> - <Subject>" (the subject
\* with &amp; read as &).  (Checked under SpecClassify.)
C8_Classifier ==
    pc = "idle" =>
      /\ \A r \in C8_Reference : event_title = r[1] => class_name = r[2]
      /\ \A c \in Codes, x \in Sections :
           LET suffix == <<" ">> \o c \o <<" ">> \o x
               n      == Len(event_title) - Len(suffix)
           IN  (n >= 1 /\ SubSeq(event_title, n + 1, Len(event_title)) = suffix)
               => class_name =
                    Some(c \o <<" ","-"," ">>
                         \o replace(SubSeq(event_title, 1, n), <<"&","a","m","p",";">>, <<"&">>))

C8_Witness ==
    /\ pc = "idle"
    /\ event_title = <<"S","k","a","t","i","n","g"," ","&","a","m","p",";"," ","M","A","T","H"," "," ","1","0","1"," ","A","L","1">>
    /\ class_name = Some(<<"M","A","T","H"," "," ","1","0","1"," ","-"," ","S","k","a","t","i","n","g"," ","&">>)

\* ------------------------------------------------------------------ C9
\* the lines of the file being imported
FileLines == split(file.content, "\n")

\* line k is the one DESCRIPTION line of a file that is one VEVENT block,
\* and the line after it begins with whitespace
C9_Folded(k) ==
    LET L == FileLines IN
    /\ Len(L) >= 4
    /\ L[1] = BeginLine /\ L[Len(L)] = EndLine
    /\ \A j \in 2..(Len(L) - 1) : L[j] \notin {BeginLine, EndLine}
    /\ k \in 2..(Len(L) - 2)
    /\ \A j \in 2..(Len(L) - 1) : StartsWithAt(L[j], <<"D","E","S","C","R","I","P","T","I","O","N",":">>, 1) <=> j = k
    /\ L[k + 1] # <<>> /\ L[k + 1][1] \in {" ", "\t"}

\* C9: when a DESCRIPTION line in a VEVENT block is followed by a
\* continuation line, the record's DESCRIPTION is exactly the text after
\* the first colon of the DESCRIPTION line.  (Checked under SpecParse.)
C9_ContinuationNotAppended ==
    pc # "idle" =>
      \A k \in 1..MaxLines : C9_Folded(k) =>
         /\ Len(ics_events) = 1
         /\ <<"D","E","S","C","R","I","P","T","I","O","N">> \in DOMAIN ics_events[1]
         /\ ics_events[1][<<"D","E","S","C","R","I","P","T","I","O","N">>]
              = SubSeq(FileLines[k], Len(<<"D","E","S","C","R","I","P","T","I","O","N",":">>) + 1, Len(FileLines[k]))

\* ----------------------------------------------------------------- C10
\* the class identifiers of the store's imported events
C10_Derived ==
    {parse_class_name(events[d][k].title).val :
       <<d, k>> \in {dk \in UNION {{<<dd, kk>> : kk \in 1..Len(events[dd])} :
                                    dd \in DOMAIN events} :
                       /\ "imported_from" \in DOMAIN events[dk[1]][dk[2]]
                       /\ events[dk[1]][dk[2]].imported_from = "ics"
                       /\ parse_class_name(events[dk[1]][dk[2]].title).kind = "value"}}

C10_Titles ==
    <<<<"R","e","v","i","e","w"," ","t","o","d","a","y","'","s"," ","m","a","t","e","r","i","a","l">>, <<"C","o","m","p","l","e","t","e"," ","h","o","m","e","w","o","r","k","/","a","s","s","i","g","n","m","e","n","t","s">>,
      <<"P","r","e","p","a","r","e"," ","f","o","r"," ","n","e","x","t"," ","c","l","a","s","s">>, <<"S","t","u","d","y","/","p","r","a","c","t","i","c","e"," ","p","r","o","b","l","e","m","s">>>>
C10_Priorities == <<<<"m","e","d","i","u","m">>, <<"h","i","g","h">>, <<"m","e","d","i","u","m">>, <<"m","e","d","i","u","m">>>>

\* C10: when the import returns, every class identifier derived from the
\* imported events has exactly the four templates, in order, with their
\* priorities, each description containing the identifier.
C10_FourTemplates ==
    pc = "return" =>
      \A cn \in C10_Derived :
         /\ cn \in DOMAIN class_templates
         /\ Len(class_templates[cn]) = 4
         /\ \A k \in 1..4 :
              /\ DOMAIN class_templates[cn][k] = {"title", "description", "priority"}
              /\ class_templates[cn][k].title = C10_Titles[k]
              /\ class_templates[cn][k].priority = C10_Priorities[k]
              /\ Contains(class_templates[cn][k].description, cn)

C10_Witness ==
    /\ pc = "return"
    /\ imported_count > 0
    /\ <<"E","C","E"," ","3","7","4"," ","-"," ","A","l","g","s">> \in C10_Derived
    /\ Len(class_templates[<<"E","C","E"," ","3","7","4"," ","-"," ","A","l","g","s">>]) = 4

\* ----------------------------------------------------------------- C11
\* t is the four synthesized templates of identifier cn
C11_Synthesized(t, cn) ==
    /\ Len(t) = 4
    /\ \A k \in 1..4 :
         /\ t[k].title = C10_Titles[k]
         /\ t[k].priority = C10_Priorities[k]
         /\ Contains(t[k].description, cn)

\* C11: the import replaces the templates under every identifier it
\* derives by the four synthesized ones, whatever was there before, and
\* no step of the import changes the templates under an identifier it
\* does not derive.
C11_MergePolicy ==
    [][ pc # "idle" =>
          /\ \A cn \in DOMAIN class_templates :
               IF pc = "extract" /\ cn \in C10_Derived
               THEN C11_Synthesized(class_templates'[cn], cn)
               ELSE /\ cn \in DOMAIN class_templates'
                    /\ class_templates'[cn] = class_templates[cn]
          /\ DOMAIN class_templates' =
               DOMAIN class_templates \cup (IF pc = "extract" THEN C10_Derived ELSE {}) ]_vars

C11_Witness ==
    /\ pc = "return"
    /\ <<"M","A","T","H"," ","1","0","1"," ","-"," ","C","a","l","c","u","l","u","s">> \in DOMAIN class_templates
    /\ class_templates[<<"M","A","T","H"," ","1","0","1"," ","-"," ","C","a","l","c","u","l","u","s">>] = ManualTemplates[<<"M","A","T","H"," ","1","0","1"," ","-"," ","C","a","l","c","u","l","u","s">>]
    /\ C11_Synthesized(class_templates[<<"E","C","E"," ","3","7","4"," ","-"," ","A","l","g","s">>], <<"E","C","E"," ","3","7","4"," ","-"," ","A","l","g","s">>)

\* ----------------------------------------------------------------- C12
\* C12: a run of import_ics_events writes the events file exactly once,
\* after the last record: while records are processed nothing has been
\* written (the file still holds the store the run started with), and
\* from the write on it has been written once, holds the store, and a
\* backup has been written with it exactly when the config enables
\* backups (the default when the key is missing).  (Checked under
\* SpecSave.)
C12_SavedOnceAtEnd ==
    /\ pc \in {"loop", "while"} =>
         /\ saves = 0 /\ backups = 0
         /\ load_events(events_file) = start_events
    /\ pc \in {"extract", "return"} =>
         /\ saves = 1
         /\ i > Len(ics_events)
         /\ events_file = Some(events)
         /\ IF config = NoBackupConfig
            THEN backups = 0
            ELSE backups = 1 /\ backup_file = Some(events)

C12_Witness ==
    /\ pc = "return"
    /\ config = NoBackupConfig
    /\ imported_count > 1
    /\ saves = 1
    /\ backups = 0
    /\ backup_file = NoneValue

\* ----------------------------------------------------------------- C13
\* C13: whenever no import is running, the events file holds the store
\* in memory (no file yet reads as the empty store).  (Checked under
\* SpecEdit.)
C13_PersistedEqualsMemory == pc = "idle" => load_events(events_file) = events

C13_Witness ==
    /\ pc = "idle"
    /\ imports > 0
    /\ edits > 0
    /\ Cardinality(DOMAIN events) > 1
    /\ events_file = Some(events)

\* ----------------------------------------------------------------- C14
\* the RRULE value of the record the loop is at ('' when it has none)
C14_Rule == DictGet(Rec, <<"R","R","U","L","E">>, <<>>)

\* C14: a record with a valid DTSTART and DTEND whose RRULE is absent or
\* does not contain FREQ=WEEKLY (FREQ=DAILY, FREQ=MONTHLY), processed
\* while the store is empty, leaves exactly one event in the store, on the
\* date of DTSTART, with the record's title and times, and adds one to
\* the count.  (Checked under SpecRules.)
C14_NonWeeklyOneEvent ==
    [][ (AtRecord /\ events = EmptyDict /\ ~Contains(C14_Rule, <<"F","R","E","Q","=","W","E","E","K","L","Y">>))
        => \A s \in RuleStarts :
             DictGet(Rec, <<"D","T","S","T","A","R","T">>, <<>>) = s.value =>
               /\ DOMAIN events' = {s.date}
               /\ Len(events'[s.date]) = 1
               /\ SameKey(events'[s.date][1], TitleM, s.start_time)
               /\ events'[s.date][1].end_time = s.end_time
               /\ imported_count' = imported_count + 1
               /\ pc' = "loop" /\ i' = i + 1 ]_vars

C14_Witness ==
    /\ pc = "loop"
    /\ i = 2
    /\ DictGet(ics_events[1], <<"R","R","U","L","E">>, <<>>) = <<"F","R","E","Q","=","D","A","I","L","Y",";","U","N","T","I","L","=","2","0","2","5","0","1","1","0">>
    /\ DOMAIN events = {<<"2","0","2","4","-","1","2","-","3","1">>}
    /\ Len(events[<<"2","0","2","4","-","1","2","-","3","1">>]) = 1
    /\ imported_count = 1

\* ----------------------------------------------------------------- C15
\* C15: a record whose RRULE contains FREQ=WEEKLY and no BYDAY parameter
\* contributes nothing: the loop goes on to the next record with the
\* store (no date added, not even that of DTSTART) and the count as they
\* were.  (Checked under SpecRules.)
C15_WeeklyWithoutByday ==
    [][ (AtRecord /\ Contains(C14_Rule, <<"F","R","E","Q","=","W","E","E","K","L","Y">>)
                  /\ ~Contains(C14_Rule, <<"B","Y","D","A","Y">>))
        => /\ events' = events
           /\ imported_count' = imported_count
           /\ pc' = "loop" /\ i' = i + 1 ]_vars

C15_Witness ==
    /\ pc = "return"
    /\ Len(ics_events) = 2
    /\ DictGet(ics_events[1], <<"R","R","U","L","E">>, <<>>) = <<"F","R","E","Q","=","W","E","E","K","L","Y",";","U","N","T","I","L","=","2","0","2","5","0","1","1","5">>
    /\ DictGet(ics_events[1], <<"D","T","S","T","A","R","T">>, <<>>) = <<"2","0","2","5","0","1","0","6","T","1","4","0","0","0","0">>
    /\ DictGet(ics_events[2], <<"R","R","U","L","E">>, <<>>) = <<"F","R","E","Q","=","D","A","I","L","Y",";","U","N","T","I","L","=","2","0","2","5","0","1","1","0">>
    /\ DOMAIN events = {<<"2","0","2","5","-","0","2","-","2","8">>}
    /\ imported_count = 1

\* ----------------------------------------------------------------- C16
\* a line that begins with a space or a tab
C16_Continuation(line) == line # <<>> /\ line[1] \in {" ", "\t"}

\* a key:value line (a continuation line is none)
C16_IsField(line) ==
    /\ line \notin {BeginLine, EndLine}
    /\ ~C16_Continuation(line)
    /\ Contains(line, <<":">>)

\* the key of a field line: its text before the first colon, without
\* parameters; and its value, the text after that colon
C16_Key(line) ==
    LET name == SubSeq(line, 1, Find(line, <<":">>) - 1)
    IN  IF Contains(name, <<";">>) THEN SubSeq(name, 1, Find(name, <<";">>) - 1)
        ELSE name
C16_Value(line) == SubSeq(line, Find(line, <<":">>) + 1, Len(line))

\* The blocks the file's END:VEVENT lines close, in file order, each as
\* the set of the numbers of its field lines: BEGIN:VEVENT opens a block
\* and forgets the fields collected, END:VEVENT gives the block when it is
\* open and has a field, a field line counts inside an open block only.
RECURSIVE C16_Blocks(_, _, _, _, _)
C16_Blocks(lines, k, open, fields, out) ==
    IF k > Len(lines) THEN out
    ELSE IF lines[k] = BeginLine
    THEN C16_Blocks(lines, k + 1, TRUE, {}, out)
    ELSE IF lines[k] = EndLine
    THEN C16_Blocks(lines, k + 1, FALSE, {},
                    IF open /\ fields # {} THEN Append(out, fields) ELSE out)
    ELSE IF open /\ C16_IsField(lines[k])
    THEN C16_Blocks(lines, k + 1, open, fields \cup {k}, out)
    ELSE C16_Blocks(lines, k + 1, open, fields, out)

\* the records are those of the blocks, in order, with their fields
C16_RecordsOfBlocks ==
    LET L == FileLines
        B == C16_Blocks(L, 1, FALSE, {}, <<>>)
    IN  /\ Len(ics_events) = Len(B)
        /\ \A j \in 1..Len(B) :
             /\ DOMAIN ics_events[j] = {C16_Key(L[l]) : l \in B[j]}
             /\ \A l \in B[j] :
                  (\A m \in B[j] : C16_Key(L[m]) = C16_Key(L[l]) => m <= l)
                  => ics_events[j][C16_Key(L[l])] = C16_Value(L[l])

\* C16: parse_ics_file gives, in file order, one record for each
\* END:VEVENT line that closes an open block holding at least one field;
\* a BEGIN:VEVENT line in an open block discards the fields collected;
\* key:value lines outside a block are in no record; an END:VEVENT with
\* no open block and a block not closed give nothing.  (Checked under
\* SpecParse.)
C16_BlockStructure == pc # "idle" => C16_RecordsOfBlocks

\* the same for the files none of whose lines begins with whitespace
C16_PlainBlockStructure ==
    (pc # "idle" /\ \A k \in 1..Len(FileLines) : ~C16_Continuation(FileLines[k]))
    => C16_RecordsOfBlocks

\* ----------------------------------------------------------------- C17
\* the lines without those that begin with a space or a tab
C17_Unfolded(lines) == SelectSeq(lines, LAMBDA line : ~C16_Continuation(line))

\* C17: a line that begins with a space or a tab adds no field to a
\* record and changes no field's value, with or without a colon in it:
\* the records of a file are those of the file without these lines.
\* (Checked under SpecParse.)
C17_ContinuationsSkipped ==
    pc # "idle" =>
      ics_events = parse_ics_file(TextFile(C17_Unfolded(FileLines))).val

\* ----------------------------------------------------------------- C18
\* C18: a record with a valid DTSTART and a DTEND that is there and is no
\* date or datetime value, whatever its length, is not dropped: once the
\* loop is past it, the date of its start holds an entry with its title
\* and start_time, and the entry the step inserted ends when it starts.
\* (Checked under SpecSave.)
C18_UnparsableEndImported ==
    [][ ( /\ AtRecord /\ i' = i + 1
          /\ <<"D","T","S","T","A","R","T">> \in DOMAIN Rec
          /\ parse_ics_datetime_try(Rec[<<"D","T","S","T","A","R","T">>]).kind = "value"
          /\ <<"D","T","E","N","D">> \in DOMAIN Rec
          /\ Rec[<<"D","T","E","N","D">>] # <<>>
          /\ parse_ics_datetime_try(Rec[<<"D","T","E","N","D">>]).kind # "value"
          /\ <<"R","R","U","L","E">> \notin DOMAIN Rec )
        => LET start == parse_ics_datetime_try(Rec[<<"D","T","S","T","A","R","T">>]).val
               title == DictGet(Rec, <<"S","U","M","M","A","R","Y">>, <<"U","n","t","i","t","l","e","d"," ","E","v","e","n","t">>)
               lst   == DictGet(events', isoformat(start.date), <<>>)
           IN  /\ HasKey(lst, title, strftime_HM(start))
               /\ events' # events
                    => lst[Len(lst)].end_time = strftime_HM(start) ]_vars

\* the same for a DTEND of eight characters or more
C18_LongUnparsableEndImported ==
    [][ ( /\ AtRecord /\ i' = i + 1
          /\ <<"D","T","S","T","A","R","T">> \in DOMAIN Rec
          /\ parse_ics_datetime_try(Rec[<<"D","T","S","T","A","R","T">>]).kind = "value"
          /\ <<"D","T","E","N","D">> \in DOMAIN Rec
          /\ Len(Rec[<<"D","T","E","N","D">>]) >= 8
          /\ parse_ics_datetime_try(Rec[<<"D","T","E","N","D">>]).kind # "value"
          /\ <<"R","R","U","L","E">> \notin DOMAIN Rec )
        => LET start == parse_ics_datetime_try(Rec[<<"D","T","S","T","A","R","T">>]).val
               title == DictGet(Rec, <<"S","U","M","M","A","R","Y">>, <<"U","n","t","i","t","l","e","d"," ","E","v","e","n","t">>)
               lst   == DictGet(events', isoformat(start.date), <<>>)
           IN  /\ HasKey(lst, title, strftime_HM(start))
               /\ events' # events
                    => lst[Len(lst)].end_time = strftime_HM(start) ]_vars

\* ----------------------------------------------------------------- C19
C19_IsPrefix(a, b) == Len(a) <= Len(b) /\ SubSeq(b, 1, Len(a)) = a

\* C19: an import only appends.  At every step of a running import each
\* date keeps its events as a prefix of what it holds after the step, and
\* what the store held when the import began stays a prefix too; a step
\* adds at most one event to a date, at the end, with the title of the
\* record the loop is at, and the loop never goes back to an earlier
\* record: the events added to a date are in the order of their records
\* in the file.  (Checked under SpecSave.)
C19_AppendOnly ==
    [][ (pc \in {"loop", "while", "extract", "return"}) =>
        ( /\ \A d \in DOMAIN events :
               d \in DOMAIN events' /\ C19_IsPrefix(events[d], events'[d])
          /\ \A d \in DOMAIN start_events :
               d \in DOMAIN events' /\ C19_IsPrefix(start_events[d], events'[d])
          /\ (pc' # "idle" => i' >= i)
          /\ \A d \in DOMAIN events' :
               LET old == DictGet(events, d, <<>>)
                   new == events'[d]
               IN  Len(new) > Len(old) =>
                     /\ Len(new) = Len(old) + 1
                     /\ i <= Len(ics_events)
                     /\ new[Len(new)].title
                          = DictGet(Rec, <<"S","U","M","M","A","R","Y">>, <<"U","n","t","i","t","l","e","d"," ","E","v","e","n","t">>) ) ]_vars

\* a second import has put the 09:00 event after the 14:00 event the date
\* held before
C19_Witness ==
    /\ pc = "return"
    /\ imports = 2
    /\ <<"2","0","2","5","-","0","1","-","0","2">> \in DOMAIN start_events
    /\ Len(start_events[<<"2","0","2","5","-","0","1","-","0","2">>]) = 1
    /\ start_events[<<"2","0","2","5","-","0","1","-","0","2">>][1].start_time = <<"1","4",":","0","0">>
    /\ Len(events[<<"2","0","2","5","-","0","1","-","0","2">>]) = 2
    /\ events[<<"2","0","2","5","-","0","1","-","0","2">>][1] = start_events[<<"2","0","2","5","-","0","1","-","0","2">>][1]
    /\ events[<<"2","0","2","5","-","0","1","-","0","2">>][2].start_time = <<"0","9",":","0","0">>

\* ----------------------------------------------------------------- C20
\* what pattern n makes of the title (stripped, &amp; read as &)
C20_Pattern(n) ==
    LET title == replace(strip(event_title), <<"&","a","m","p",";">>, <<"&">>) IN
    CASE n = 1 -> pattern1(title)
      [] n = 2 -> pattern2(title)
      [] n = 3 -> pattern3(title)
      [] n = 4 -> pattern4(title)

\* the patterns that match the title
C20_Matching == {n \in 1..4 : C20_Pattern(n).kind = "value"}

\* the titles of CascadeTitles with the patterns that match them and the
\* name the first of these gives
C20_Reference ==
    { <<<<"E","C","E"," ","3","7","4"," ","E","C","E"," ","4","0","8"," ","A","L","1">>, {1, 2, 3, 4}, Some(<<"E","C","E"," ","4","0","8"," ","-"," ","E","C","E"," ","3","7","4">>)>>,
      <<<<"E","C","E","3","7","4"," ","A","p","p","l","i","e","d"," ","P","r","o","g","r","a","m","m","i","n","g">>, {2}, Some(<<"E","C","E","3","7","4"," ","-"," ","A","p","p","l","i","e","d"," ","P","r","o","g","r","a","m","m","i","n","g">>)>>,
      <<<<"E","C","E"," ","3","7","4"," ","A","p","p","l","i","e","d"," ","P","r","o","g","r","a","m","m","i","n","g"," ","L","a","b">>, {2, 3, 4},
        Some(<<"E","C","E"," ","3","7","4"," ","-"," ","A","p","p","l","i","e","d"," ","P","r","o","g","r","a","m","m","i","n","g">>)>>,
      <<<<"L","a","b"," ","f","o","r"," ","M","A","T","H"," ","1","0","1"," ","t","o","d","a","y">>, {3, 4}, Some(<<"M","A","T","H"," ","1","0","1"," ","-"," ","L","a","b"," ","f","o","r"," "," ","t","o","d","a","y">>)>>,
      <<<<"M","A","T","H"," ","1","0","1">>, {3, 4}, Some(<<"M","A","T","H"," ","1","0","1">>)>>,
      <<<<"C","S"," ","1","2"," ","A","B">>, {4}, Some(<<"C","S"," ","1","2">>)>>,
      <<<<" "," ">>, {}, NoneValue>>,
      <<<<"T","e","a","m"," ","M","e","e","t","i","n","g">>, {}, NoneValue>> }

\* C20: for every title parse_class_name gives what the lowest-numbered
\* pattern that matches gives, never what a later one gives, and None when
\* no pattern matches; "ECE 374 ECE 408 AL1", which patterns 1 and 2 both
\* match, gives pattern 1's "ECE 408 - ECE 374".  (Checked under
\* SpecClassify.)
C20_CascadeOrder ==
    pc = "idle" =>
      /\ \A n \in C20_Matching :
           (\A m \in C20_Matching : n <= m) => class_name = C20_Pattern(n)
      /\ C20_Matching = {} => class_name = NoneValue
      /\ \A r \in C20_Reference :
           event_title = r[1] => C20_Matching = r[2] /\ class_name = r[3]

C20_Witness ==
    /\ pc = "idle"
    /\ event_title = <<"E","C","E"," ","3","7","4"," ","E","C","E"," ","4","0","8"," ","A","L","1">>
    /\ C20_Pattern(2) = Some(<<"E","C","E"," ","3","7","4"," ","-"," ","E","C","E"," ","4","0","8">>)
    /\ class_name = Some(<<"E","C","E"," ","4","0","8"," ","-"," ","E","C","E"," ","3","7","4">>)

\* ----------------------------------------------------------------- C21
\* a section token: AL\d*, AD\d*, Lab, Discussion, Lecture, BYA, BL\d*, AB\d*
C21_IsSectionToken(w) ==
    \/ w \in {<<"L","a","b">>, <<"D","i","s","c","u","s","s","i","o","n">>, <<"L","e","c","t","u","r","e">>, <<"B","Y","A">>}
    \/ /\ Len(w) >= 2
       /\ SubSeq(w, 1, 2) \in {<<"A","L">>, <<"A","D">>, <<"B","L">>, <<"A","B">>}
       /\ AllIn(SubSeq(w, 3, Len(w)), Digit)

\* the subject without its last word when that word is a section token
C21_StripTail(subject) ==
    LET P == {p \in 2..Len(subject) :
                /\ subject[p - 1] \in WS
                /\ \A k \in p..Len(subject) : subject[k] \notin WS
                /\ C21_IsSectionToken(SubSeq(subject, p, Len(subject)))}
    IN  IF P = {} THEN subject
        ELSE SubSeq(subject, 1, rstrip_at(subject, Min(P) - 1))

\* code-first titles: code and subject
C21_CodeFirst ==
    { <<<<"E","C","E"," ","3","7","4">>, <<"A","p","p","l","i","e","d"," ","P","r","o","g","r","a","m","m","i","n","g">>>>,
      <<<<"E","C","E"," ","3","7","4">>, <<"A","p","p","l","i","e","d"," ","P","r","o","g","r","a","m","m","i","n","g"," ","L","a","b">>>>,
      <<<<"H","K"," ","1","0","4">>, <<"I","c","e"," ","S","k","a","t","i","n","g"," ","A","L","1">>>>,
      <<<<"E","C","E"," ","3","7","4">>, <<"A","d","v","a","n","c","e","d"," ","L","a","b"," ","T","e","c","h","n","i","q","u","e","s">>>> }

\* C21: for a title "<CODE> <Subject>" the name is "<CODE> - <Subject>",
\* the subject without a section token at its very end; a section token
\* in the middle of the subject and the words after it are kept ("ECE 374
\* Advanced Lab Techniques" keeps "Lab Techniques").  (Checked under
\* SpecClassify.)
C21_TailOnly ==
    pc = "idle" =>
      \A t \in C21_CodeFirst :
         event_title = t[1] \o <<" ">> \o t[2]
           => class_name = Some(t[1] \o <<" ","-"," ">> \o C21_StripTail(t[2]))

\* the same for the subjects with no section token before their last word
C21_TailOnlyPlain ==
    pc = "idle" =>
      \A t \in C21_CodeFirst \ {<<<<"E","C","E"," ","3","7","4">>, <<"A","d","v","a","n","c","e","d"," ","L","a","b"," ","T","e","c","h","n","i","q","u","e","s">>>>} :
         event_title = t[1] \o <<" ">> \o t[2]
           => class_name = Some(t[1] \o <<" ","-"," ">> \o C21_StripTail(t[2]))

\* ----------------------------------------------------------------- C22
\* 2 to 4 capital letters, one space, 3 digits
C22_IsCode(c) ==
    \E n \in 2..4 :
       /\ Len(c) = n + 4
       /\ AllIn(SubSeq(c, 1, n), Upper)
       /\ c[n + 1] = " "
       /\ AllIn(SubSeq(c, n + 2, n + 4), Digit)

\* "<CODE>" or "<CODE> - <Subject>" with a subject that is not empty
C22_IsClassIdentifier(name) ==
    \/ C22_IsCode(name)
    \/ \E k \in 1..Len(name) :
          /\ C22_IsCode(SubSeq(name, 1, k))
          /\ StartsWithAt(name, <<" ","-"," ">>, k + 1)
          /\ Len(name) > k + 3

\* C22: every name parse_class_name gives is "<CODE>" or
\* "<CODE> - <Subject>", CODE being 2 to 4 capital letters, a space and 3
\* digits, the subject not empty.  (Checked under SpecClassify.)
C22_IdentifierShape ==
    (pc = "idle" /\ class_name.kind = "value")
      => C22_IsClassIdentifier(class_name.val)

\* ----------------------------------------------------------------- C23
\* the events the running import has inserted so far
C23_Inserted ==
    UNION {{events[d][k] :
              k \in (IF d \in DOMAIN start_events THEN Len(start_events[d]) ELSE 0) + 1
                    .. Len(events[d])} : d \in DOMAIN events}

\* the class names derived from the events the running import inserted
C23_DerivedByRun ==
    {parse_class_name(e.title).val :
       e \in {x \in C23_Inserted : parse_class_name(x.title).kind = "value"}}

\* the entries a step creates or changes
C23_Written ==
    {cn \in DOMAIN class_templates' :
       cn \notin DOMAIN class_templates \/ class_templates'[cn] # class_templates[cn]}

\* C23: the entries of the class templates that an import creates or
\* overwrites are those derived from an event the same import inserted; an
\* import that inserts no event creates or overwrites none.  (Checked
\* under SpecReload.)
C23_OnlyInsertedEvents ==
    [][ pc = "extract" => C23_Written \subseteq C23_DerivedByRun ]_vars

\* the entries an import creates or overwrites are derived from the
\* imported events of the store, whichever import inserted them
C23_FromStoreEvents ==
    [][ pc = "extract" => C23_Written \subseteq ExtractedNames(events) ]_vars

\* ----------------------------------------------------------------- C24
\* the imported events of the store
C24_IcsEvents ==
    {e \in UNION {{events[d][k] : k \in 1..Len(events[d])} : d \in DOMAIN events} :
       "imported_from" \in DOMAIN e /\ e.imported_from = "ics"}

\* C24: events whose title parse_class_name gives None for derive
\* nothing: every entry extract adds or changes is the name of an imported
\* event of the store whose title is classified, and when no imported event
\* of the store is classified the import leaves the class templates as
\* they are and writes no classes_from_ics.txt.  (Checked under SpecReload.)
C24_UnclassifiedDeriveNothing ==
    [][ pc = "extract" =>
          /\ \A cn \in C23_Written :
                \E e \in C24_IcsEvents : parse_class_name(e.title) = Some(cn)
          /\ (\A e \in C24_IcsEvents : parse_class_name(e.title) = NoneValue)
               => /\ class_templates' = class_templates
                  /\ ics_classes_file' = ics_classes_file ]_vars

\* an import of 'Untitled Event', 'Team Meeting' and '' has run the
\* extraction: no file, the templates those of classes.txt
C24_Witness ==
    /\ pc = "return"
    /\ imported_count = 3
    /\ file = FileUnclassified
    /\ \E d \in DOMAIN events : \E k \in 1..Len(events[d]) : events[d][k].title = <<>>
    /\ ics_classes_file = NoneValue
    /\ class_templates = ManualTemplates

\* ----------------------------------------------------------------- C30
\* C30: with the class files unchanged since the application read them,
\* reload_class_templates leaves the class templates as the first load
\* made them: no task list grows.  (Checked under SpecReload, where only
\* reload_class_templates counts in edits.)
C30_ReloadIdempotent ==
    [][ (imports = 0 /\ edits' = edits + 1)
          => class_templates' = class_templates ]_vars

\* a reload never removes a class, and every task list it leaves begins
\* with the list it found
C30_ReloadAppends ==
    [][ edits' = edits + 1 =>
          \A cn \in DOMAIN class_templates :
             /\ cn \in DOMAIN class_templates'
             /\ Len(class_templates'[cn]) >= Len(class_templates[cn])
             /\ SubSeq(class_templates'[cn], 1, Len(class_templates[cn]))
                  = class_templates[cn] ]_vars

\* ----------------------------------------------------------------- C25
\* C25: an import that has started returns to its caller: the loop over
\* the records and each weekly expansion loop end.  (Checked under
\* SpecTerminate.)
C25_ImportTerminates == (pc # "idle") ~> (pc = "idle")

\* an iteration of the expansion loop moves the current date on by one
\* day, and the loop is left only from a date past until, or when an
\* exception ends the record
C25_OneDayPerIteration ==
    [][ pc = "while" =>
          /\ pc' = "while" => /\ toordinal(current_date') = toordinal(current_date) + 1
                              /\ DateLE(current_date, until_date)
                              /\ until_date' = until_date
          /\ pc' # "while" => ~DateLE(current_date, until_date) ]_vars

\* a rule whose UNTIL is before the start date: the loop body has not run
\* and the import is about to return 0
C25_Witness ==
    /\ pc = "return"
    /\ file = WeeklyFile(<<2025, 12, 20>>, {0}, <<";","U","N","T","I","L","=","2","0","2","5","0","1","1","5">>)
    /\ imported_count = 0
    /\ events = EmptyDict

\* ----------------------------------------------------------------- C26
\* the number of events of a store
RECURSIVE C26_TotalOver(_, _)
C26_TotalOver(store, dates) ==
    IF dates = {} THEN 0
    ELSE LET d == CHOOSE x \in dates : TRUE
         IN  Len(store[d]) + C26_TotalOver(store, dates \ {d})

C26_Total(store) == C26_TotalOver(store, DOMAIN store)

\* the count an import is about to return is the number of events it
\* inserted: those of the store now less those of the store it started with
C26_CountEqualsInserted ==
    pc = "return" => imported_count = C26_Total(events) - C26_Total(start_events)

\* C26: the count import_ics_events returns is the number of events the
\* run inserted, the events of the store after it less those before it,
\* and the import of a file right after an import of the same file returns
\* 0.  (Checked under SpecTwice.)
C26_CountAndSecondImport ==
    pc = "return" =>
      /\ imported_count = C26_Total(events) - C26_Total(start_events)
      /\ repeat => imported_count = 0

\* ----------------------------------------------------------------- C27
\* C27: the store holds no date with an empty list of events, whatever
\* imports, additions, removals and updates have been made.  (Checked
\* under SpecEdit.)
C27_NoEmptyDate == \A d \in DOMAIN events : Len(events[d]) > 0

\* the only event of 2025-01-01 has been removed after an import: the
\* date is gone, the other dates of the import are there
C27_Witness ==
    /\ pc = "idle"
    /\ imports > 0
    /\ edits = 1
    /\ Len(removals.removed) = 1
    /\ removals.removed[1][1] = isoformat(<<2025, 1, 1>>)
    /\ isoformat(<<2025, 1, 1>>) \notin DOMAIN events
    /\ isoformat(<<2025, 1, 6>>) \in DOMAIN events

\* ----------------------------------------------------------------- C28
\* the index is one of the list of the date
C28_Valid(d, k) ==
    /\ isoformat(d) \in DOMAIN events
    /\ k \in 0..(Len(events[isoformat(d)]) - 1)

\* nothing of the store or of the files on disk changes
C28_NoEffect == UNCHANGED <<events, events_file, backup_file>>

\* the other dates are as they were
C28_OthersKept(d) ==
    /\ (DOMAIN events') \ {isoformat(d)} = (DOMAIN events) \ {isoformat(d)}
    /\ \A o \in (DOMAIN events) \ {isoformat(d)} : events'[o] = events[o]

C29_Added(d) ==
    SubSeq(DictGet(events, d, <<>>),
           Len(DictGet(start_events, d, <<>>)) + 1, Len(DictGet(events, d, <<>>)))

\* the removals made on date d
C29_RemovedOn(d) == {k \in 1..Len(removals.removed) : removals.removed[k][1] = d}

\* the import of the file imported last, with events removed in between,
\* is about to return
C29_Reimported ==
    /\ pc = "return"
    /\ removals.file = Some(file)
    /\ removals.removed # <<>>

\* what such an import has done: on every date the list it found, then
\* one event for each event removed from that date, with the title and
\* the start_time of the removed one; the count is the number of removals
C29_Restored ==
    /\ \A d \in (DOMAIN events) \cup (DOMAIN start_events)
                \cup {removals.removed[k][1] : k \in 1..Len(removals.removed)} :
          /\ SubSeq(DictGet(events, d, <<>>), 1, Len(DictGet(start_events, d, <<>>)))
               = DictGet(start_events, d, <<>>)
          /\ Len(C29_Added(d)) = Cardinality(C29_RemovedOn(d))
          /\ \A k \in C29_RemovedOn(d) :
                \E j \in 1..Len(C29_Added(d)) :
                   /\ C29_Added(d)[j].title = removals.removed[k][2].title
                   /\ C29_Added(d)[j].start_time = removals.removed[k][2].start_time
    /\ imported_count = Len(removals.removed)

\* C29: after an import of a file and the removal of events with
\* remove_event, the import of the same file inserts an event with the
\* title and start_time of each removed event on the date it was removed
\* from, at the end of the date's list, inserts nothing else and returns
\* the number of events it inserted.  (Checked under SpecReimport.)
C29_ReimportRestores == C29_Reimported => C29_Restored

\* the same for the files whose records have a start that can be read
C29_ReimportRestoresDated ==
    (C29_Reimported /\ file # FileBadStart) => C29_Restored
====
